---- MODULE Spec2Model ----
(***************************************************************************)
(* A model of smart-finanza's ingestion core: FinanceTracker.process_file  *)
(* and teach (tracker.py), LLMExtractor.extract_chunk and                  *)
(* identify_instrument (llm.py), DatabaseEngine (db.py) and Categorizer    *)
(* (categorizer.py).                                                       *)
(*                                                                         *)
(* Python strings are sequences of one-character strings, so that lower(), *)
(* "in", LIKE, str(), float() and the regular expression are computed.     *)
(* A JSON value of the Oracle is a tagged record [t, v]:                   *)
(*   t = "absent" (no such key), "null", "str" (v a string), "num" (v an   *)
(*   integer), "nan" (the float NaN json.loads accepts).                   *)
(* Amounts are whole numbers; fractions of a unit are not modelled.        *)
(***************************************************************************)
EXTENDS Integers, Sequences, FiniteSets, TLC

----------------------------------------------------------------------------
(* Characters and strings *)

Uppers == <<"A","B","C","D","E","F","G","H","I","J","K","L","M",
            "N","O","P","Q","R","S","T","U","V","W","X","Y","Z">>

Lowers == <<"a","b","c","d","e","f","g","h","i","j","k","l","m",
            "n","o","p","q","r","s","t","u","v","w","x","y","z">>

DigitChars == <<"0","1","2","3","4","5","6","7","8","9">>

IsDigit(ch) == \E i \in 1..10 : DigitChars[i] = ch

DigitVal(ch) == (CHOOSE i \in 1..10 : DigitChars[i] = ch) - 1

LowerCh(ch) ==
  IF \E i \in 1..26 : Uppers[i] = ch
  THEN Lowers[CHOOSE i \in 1..26 : Uppers[i] = ch]
  ELSE ch

UpperCh(ch) ==
  IF \E i \in 1..26 : Lowers[i] = ch
  THEN Uppers[CHOOSE i \in 1..26 : Lowers[i] = ch]
  ELSE ch

\* str.lower()
Lower(s) == [i \in 1..Len(s) |-> LowerCh(s[i])]

\* str.upper()
Upper(s) == [i \in 1..Len(s) |-> UpperCh(s[i])]

\* Python's "sub in s"
Contains(s, sub) ==
  \E i \in 0..(Len(s) - Len(sub)) :
    \A j \in 1..Len(sub) : s[i + j] = sub[j]

\* str.replace(ch, "")
RECURSIVE RemoveCh(_, _)
RemoveCh(s, ch) ==
  IF s = <<>> THEN <<>>
  ELSE IF Head(s) = ch THEN RemoveCh(Tail(s), ch)
  ELSE <<Head(s)>> \o RemoveCh(Tail(s), ch)

\* The index of the last occurrence of ch in s, 0 if there is none.
LastIndexOf(s, ch) ==
  IF \E i \in 1..Len(s) : s[i] = ch
  THEN CHOOSE i \in 1..Len(s) : s[i] = ch /\ \A j \in (i+1)..Len(s) : s[j] # ch
  ELSE 0

\* os.path.basename
Basename(path) == SubSeq(path, LastIndexOf(path, "/") + 1, Len(path))

\* filepath.lower().split(".")[-1]
Extension(path) ==
  LET p == Lower(path) IN SubSeq(p, LastIndexOf(p, ".") + 1, Len(p))

\* The decimal digits of a natural number.
RECURSIVE NatStr(_)
NatStr(n) ==
  IF n < 10 THEN <<DigitChars[n + 1]>>
  ELSE NatStr(n \div 10) \o <<DigitChars[(n % 10) + 1]>>

\* str(int)
IntStr(n) == IF n < 0 THEN <<"-">> \o NatStr(0 - n) ELSE NatStr(n)

\* The value of a non-empty string of digits.
RECURSIVE DigitsVal(_)
DigitsVal(s) ==
  IF Len(s) = 1 THEN DigitVal(s[1])
  ELSE 10 * DigitsVal(SubSeq(s, 1, Len(s) - 1)) + DigitVal(s[Len(s)])

AllDigits(s) == s # <<>> /\ \A i \in 1..Len(s) : IsDigit(s[i])

----------------------------------------------------------------------------
(* JSON values as the Oracle returns them *)

Absent == [t |-> "absent", v |-> <<>>]
Null   == [t |-> "null", v |-> <<>>]
NaN    == [t |-> "nan", v |-> <<>>]
Str(s) == [t |-> "str", v |-> s]
Num(n) == [t |-> "num", v |-> n]

\* Python truthiness of t.get(key): None, "", 0 are falsy; NaN is truthy.
Truthy(x) ==
  CASE x.t = "str" -> x.v # <<>>
    [] x.t = "num" -> x.v # 0
    [] x.t = "nan" -> TRUE
    [] OTHER -> FALSE

\* str(x)
PyStr(x) ==
  CASE x.t = "str" -> x.v
    [] x.t = "num" -> IntStr(x.v)
    [] x.t = "nan" -> <<"n","a","n">>
    [] OTHER -> <<"N","o","n","e">>

----------------------------------------------------------------------------
(* constants.py *)

DEBIT  == <<"D","E","B","I","T">>
CREDIT == <<"C","R","E","D","I","T">>

CREDIT_CARD   == <<"C","r","e","d","i","t"," ","C","a","r","d">>
DEBIT_CARD    == <<"D","e","b","i","t"," ","C","a","r","d">>
UPI           == <<"U","P","I">>
BANK_TRANSFER == <<"B","a","n","k"," ","T","r","a","n","s","f","e","r">>
CASH          == <<"C","a","s","h">>
UNKNOWN       == <<"U","n","k","n","o","w","n">>

\* The members of the enum, in declaration order (the order "for pm in
\* PaymentMethod" visits them); a member is written as its display string.
PaymentMethod == <<CREDIT_CARD, DEBIT_CARD, UPI, BANK_TRANSFER, CASH, UNKNOWN>>

Uncategorized == "Uncategorized"

----------------------------------------------------------------------------
(* db.py: DatabaseEngine.save_transactions *)

\* float(s) on the strings the model draws: an optional sign and digits, or
\* "nan" in any letter case; everything else raises ValueError.
ParseFloat(s) ==
  LET body == IF s # <<>> /\ s[1] \in {"-", "+"} THEN Tail(s) ELSE s
      neg  == s # <<>> /\ s[1] = "-"
  IN  IF Lower(body) = <<"n","a","n">>
        THEN [ok |-> TRUE, nan |-> TRUE, val |-> 0]
      ELSE IF AllDigits(body)
        THEN [ok |-> TRUE, nan |-> FALSE,
              val |-> IF neg THEN 0 - DigitsVal(body) ELSE DigitsVal(body)]
      ELSE [ok |-> FALSE, nan |-> FALSE, val |-> 0]

Abs(n) == IF n < 0 THEN 0 - n ELSE n

\* abs(float(str(t["amount"]).replace(",", ""))); ok = FALSE is the except branch.
CleanAmount(x) ==
  LET f == ParseFloat(RemoveCh(PyStr(x), ","))
  IN  [ok |-> f.ok, nan |-> f.nan, val |-> Abs(f.val)]

\* f"{amt}" of a float
FloatStr(amt) ==
  IF amt.nan THEN <<"n","a","n">> ELSE NatStr(amt.val) \o <<".","0">>

\* hashlib.md5(raw_str.encode()).hexdigest()[:8]: the digest is taken to be
\* collision-free, one digest per input string.
Md5Hex8(raw_str) == raw_str

\* The pseudo-ID hashed from the candidate's amount as the Oracle wrote it,
\* before it is cleaned.
SyntheticIdOfRawAmount(t, amt) ==
  <<"G","E","N","-">> \o Md5Hex8(PyStr(t.date) \o PyStr(t.merchant) \o PyStr(t.amount))

\* The pseudo-ID of a candidate that has no transaction_id.
SyntheticId(t, amt) ==
  <<"G","E","N","-">> \o Md5Hex8(PyStr(t.date) \o PyStr(t.merchant) \o FloatStr(amt))

\* tx_id = t.get("transaction_id"), or the pseudo-ID if that is falsy.
ResolveTxId(t, amt) ==
  IF Truthy(t.transaction_id) THEN PyStr(t.transaction_id)
  ELSE SyntheticId(t, amt)

\* The payment-method loop raises AttributeError (raw_method.lower()) when
\* the candidate's payment_method is truthy and not a string.
PaymentMethodRaises(t) ==
  Truthy(t.payment_method) /\ t.payment_method.t # "str"

\* p_method: the first enum member equal to raw_method ignoring case, when
\* raw_method is truthy and is not exactly "Unknown"; else default_method.
ResolvePaymentMethod(t, default_method) ==
  LET raw == t.payment_method
      hit == {i \in 1..Len(PaymentMethod) :
                Lower(PaymentMethod[i]) = Lower(raw.v)}
  IN  IF Truthy(raw) /\ raw.v # UNKNOWN /\ hit # {}
      THEN PaymentMethod[CHOOSE i \in hit : \A j \in hit : i <= j]
      ELSE default_method

\* txn_type: CREDIT when str(raw_type).upper() == "CREDIT", else DEBIT.
ResolveTxnType(t) ==
  LET raw == IF t.txn_type.t = "absent" THEN Str(DEBIT) ELSE t.txn_type
  IN  IF Upper(PyStr(raw)) = CREDIT THEN CREDIT ELSE DEBIT

\* A value bound to a TEXT column.
SqlText(x) == IF x.t \in {"absent", "null"} THEN <<>> ELSE PyStr(x)

\* A value bound to the REAL column: sqlite3 stores NaN as NULL.
SqlReal(amt) == IF amt.nan THEN Null ELSE Num(amt.val)

\* The row the INSERT of one candidate writes.
NewRow(t, amt, filename, default_method) ==
  [transaction_id |-> ResolveTxId(t, amt),
   date           |-> SqlText(t.date),
   merchant       |-> SqlText(t.merchant),
   amount         |-> SqlReal(amt),
   txn_type       |-> ResolveTxnType(t),
   payment_method |-> ResolvePaymentMethod(t, default_method),
   category       |-> Uncategorized,
   notes          |-> SqlText(t.notes),
   source_file    |-> filename]

\* A key of the transaction_id alone, whatever the source file.
KeyExistsInAnyFile(rows, row) ==
  \E i \in 1..Len(rows) : rows[i].transaction_id = row.transaction_id

\* UNIQUE(transaction_id, source_file)
KeyExists(rows, row) ==
  \E i \in 1..Len(rows) :
    /\ rows[i].transaction_id = row.transaction_id
    /\ rows[i].source_file = row.source_file

\* A plain INSERT into a table without the UNIQUE constraint.
InsertAlways(rows, row) == Append(rows, row)

\* INSERT OR REPLACE: the stored row of the same key is deleted and the new
\* row is appended.
InsertReplacing(rows, row) ==
  SelectSeq(rows, LAMBDA r : ~(r.transaction_id = row.transaction_id
                               /\ r.source_file = row.source_file))
    \o <<row>>

\* An upsert: the stored row of the same key takes the fields of the new row.
InsertOrUpdate(rows, row) ==
  IF KeyExists(rows, row)
    THEN [i \in 1..Len(rows) |->
            IF rows[i].transaction_id = row.transaction_id
                 /\ rows[i].source_file = row.source_file
              THEN [row EXCEPT !.category = rows[i].category]
            ELSE rows[i]]
  ELSE Append(rows, row)

\* INSERT OR IGNORE INTO transactions
InsertOrIgnore(rows, row) ==
  IF KeyExists(rows, row) THEN rows ELSE Append(rows, row)

\* "Basic validation": the candidate is skipped.
SkippedBySave(t) == ~Truthy(t.merchant) \/ ~Truthy(t.amount)

\* The loop of save_transactions from candidate i on, over the rows of the
\* connection's open transaction. raised = TRUE: the call left by an exception
\* before conn.commit().
RECURSIVE SaveLoop(_, _, _, _, _, _)
SaveLoop(transactions, i, rows, count, filename, default_method) ==
  IF i > Len(transactions)
    THEN [raised |-> FALSE, rows |-> rows, count |-> count]
  ELSE
    LET t == transactions[i] IN
    IF SkippedBySave(t)
      THEN SaveLoop(transactions, i + 1, rows, count, filename, default_method)
    ELSE IF PaymentMethodRaises(t)
      THEN [raised |-> TRUE, rows |-> rows, count |-> count]
    ELSE
      LET amt == CleanAmount(t.amount) IN
      IF ~amt.ok
        THEN SaveLoop(transactions, i + 1, rows, count, filename, default_method)
      ELSE
        LET rows2 == InsertOrIgnore(rows, NewRow(t, amt, filename, default_method))
        IN  SaveLoop(transactions, i + 1, rows2,
                     IF Len(rows2) > Len(rows) THEN count + 1 ELSE count,
                     filename, default_method)

\* save_transactions(transactions, filename, default_method) on the stored rows.
SaveTransactions(rows, transactions, filename, default_method) ==
  SaveLoop(transactions, 1, rows, 0, filename, default_method)

----------------------------------------------------------------------------
(* llm.py: LLMExtractor *)

\* A candidate: the JSON object of one transaction, one JSON value per key.
Candidate(id, date, merchant, amount, txn_type, payment_method, notes) ==
  [transaction_id |-> id, date |-> date, merchant |-> merchant,
   amount |-> amount, txn_type |-> txn_type,
   payment_method |-> payment_method, notes |-> notes]

\* What one chat() call of extract_chunk comes back with:
\*   kind "raise"     the call raised (connection error, timeout);
\*   kind "malformed" json.loads raises on the content;
\*   kind "scalar"    the JSON is neither an object nor an array;
\*   kind "list"      a JSON array of the items;
\*   kind "wrapped"   a JSON object {"transactions": items};
\*   kind "single"    a JSON object that is itself the candidate items[1].
Reply(kind, items) == [kind |-> kind, items |-> items]

EXAMPLE_MERCHANT ==
  <<"E","X","A","M","P","L","E","_","M","E","R","C","H","A","N","T">>

\* re.match(r"\d{4}-\d{2}-\d{2}", s): the pattern is matched at the start of
\* s and is not anchored at its end.
ReMatchDate(s) ==
  /\ Len(s) >= 10
  /\ \A i \in {1, 2, 3, 4, 6, 7, 9, 10} : IsDigit(s[i])
  /\ s[5] = "-"
  /\ s[8] = "-"

\* t.get("merchant", "").upper() raises AttributeError unless the value is
\* a string or the key is absent.
MerchantRaises(t) == t.merchant.t \notin {"str", "absent"}

\* re.match(..., t.get("date", "")) raises TypeError unless the value is a
\* string or the key is absent.
DateRaises(t) == t.date.t \notin {"str", "absent"}

IsExampleMerchant(t) ==
  t.merchant.t = "str" /\ Contains(Upper(t.merchant.v), EXAMPLE_MERCHANT)

DateMatches(t) == t.date.t = "str" /\ ReMatchDate(t.date.v)

\* The post-processing loop of extract_chunk from item i on.
RECURSIVE FilterLoop(_, _, _)
FilterLoop(items, i, valid_txns) ==
  IF i > Len(items) THEN [raised |-> FALSE, valid_txns |-> valid_txns]
  ELSE
    LET t == items[i] IN
    IF MerchantRaises(t) THEN [raised |-> TRUE, valid_txns |-> <<>>]
    ELSE IF IsExampleMerchant(t) THEN FilterLoop(items, i + 1, valid_txns)
    ELSE IF ~Truthy(t.amount) THEN FilterLoop(items, i + 1, valid_txns)
    ELSE IF DateRaises(t) THEN [raised |-> TRUE, valid_txns |-> <<>>]
    ELSE IF ~DateMatches(t) THEN FilterLoop(items, i + 1, valid_txns)
    ELSE FilterLoop(items, i + 1, Append(valid_txns, t))

\* The transactions list extract_chunk builds from the parsed JSON.
ParsedTransactions(reply) ==
  CASE reply.kind \in {"list", "wrapped"} -> reply.items
    [] reply.kind = "single" -> <<reply.items[1]>>
    [] OTHER -> <<>>

\* extract_chunk: the list it returns for what chat() came back with; every
\* exception ends in "return []".
ExtractChunk(reply) ==
  IF reply.kind \in {"raise", "malformed"} THEN <<>>
  ELSE LET r == FilterLoop(ParsedTransactions(reply), 1, <<>>)
       IN  IF r.raised THEN <<>> ELSE r.valid_txns

\* valid_types of identify_instrument, in the order it tries them.
ValidTypes == <<CREDIT_CARD, UPI, BANK_TRANSFER, DEBIT_CARD>>

\* identify_instrument: answer is [kind |-> "raise"] or [kind |-> "text"]
\* with the content of the message.
IdentifyInstrument(answer) ==
  IF answer.kind = "raise" THEN UNKNOWN
  ELSE
    LET result == RemoveCh(RemoveCh(answer.text, "\""), "'")
        hit == {i \in 1..Len(ValidTypes) :
                  Contains(Lower(result), Lower(ValidTypes[i]))}
    IN  IF hit # {}
        THEN ValidTypes[CHOOSE i \in hit : \A j \in hit : i <= j]
        ELSE UNKNOWN

----------------------------------------------------------------------------
(* tracker.py: FinanceTracker.infer_payment_method *)

S_credit_card == <<"c","r","e","d","i","t"," ","c","a","r","d">>
S_upi     == <<"u","p","i">>
S_savings == <<"s","a","v","i","n","g","s">>
S_account_statement ==
  <<"a","c","c","o","u","n","t"," ","s","t","a","t","e","m","e","n","t">>
S_credit  == <<"c","r","e","d","i","t">>
S_debit   == <<"d","e","b","i","t">>
S_card    == <<"c","a","r","d">>
S_bank    == <<"b","a","n","k">>

\* STEP 2 and STEP 3: the content keywords, then the filename.
InferFromKeywords(fname, text_lower) ==
  IF Contains(text_lower, S_credit_card) THEN CREDIT_CARD
  ELSE IF Contains(text_lower, S_upi) THEN UPI
  ELSE IF Contains(text_lower, S_savings)
          \/ Contains(text_lower, S_account_statement) THEN BANK_TRANSFER
  ELSE IF Contains(fname, S_credit) /\ Contains(fname, S_card) THEN CREDIT_CARD
  ELSE IF Contains(fname, S_debit) /\ Contains(fname, S_card) THEN DEBIT_CARD
  ELSE IF Contains(fname, S_upi) THEN UPI
  ELSE IF Contains(fname, S_bank) THEN BANK_TRANSFER
  ELSE UNKNOWN

\* infer_payment_method(filepath, first_page_text); answer is what the
\* Oracle's chat() comes back with when STEP 1 asks it.
InferPaymentMethod(filepath, first_page_text, answer) ==
  LET fname == Lower(Basename(filepath))
      text_lower == Lower(first_page_text)
      ai_guess == IdentifyInstrument(answer)
      hit == {i \in 1..Len(PaymentMethod) :
                Lower(PaymentMethod[i]) = Lower(ai_guess)}
  IN  IF first_page_text # <<>> /\ hit # {}
      THEN PaymentMethod[CHOOSE i \in hit : \A j \in hit : i <= j]
      ELSE InferFromKeywords(fname, text_lower)

----------------------------------------------------------------------------
(* tracker.py: the segmentation of process_file *)

ROW_BATCH_SIZE == 1

MAX_WORKERS == 2

CHUNK_SIZE_LINES == 20

S_date   == <<"d","a","t","e">>
S_amount == <<"a","m","o","u","n","t">>
S_page   == <<"p","a","g","e">>
S_of     == <<"o","f">>
S_pdf    == <<"p","d","f">>
S_csv    == <<"c","s","v">>

\* str.strip() of blanks
RECURSIVE Strip(_)
Strip(s) ==
  IF s = <<>> THEN s
  ELSE IF Head(s) = " " THEN Strip(Tail(s))
  ELSE IF s[Len(s)] = " " THEN Strip(SubSeq(s, 1, Len(s) - 1))
  ELSE s

\* row_values = [str(field).strip() for field in row if field]; a cell of a
\* table is a string or None.
RECURSIVE RowValues(_)
RowValues(row) ==
  IF row = <<>> THEN <<>>
  ELSE IF Truthy(Head(row))
    THEN <<Strip(PyStr(Head(row)))>> \o RowValues(Tail(row))
  ELSE RowValues(Tail(row))

\* " ".join(values)
RECURSIVE JoinBlank(_)
JoinBlank(values) ==
  IF values = <<>> THEN <<>>
  ELSE IF Len(values) = 1 THEN values[1]
  ELSE values[1] \o <<" ">> \o JoinBlank(Tail(values))

\* A row that passes the three "continue" filters and is queued.
KeepRow(row) ==
  LET row_values == RowValues(row)
      row_str == Lower(JoinBlank(row_values))
  IN  /\ ~(Contains(row_str, S_date) /\ Contains(row_str, S_amount))
      /\ Len(row_values) >= 2
      /\ ~(Contains(row_str, S_page) /\ Contains(row_str, S_of))

\* A task of the pool: a batch of table rows or CSV records (hint "CSV"),
\* or the raw text of a page (hint "PDF").
BatchTask(rows) == [hint |-> "CSV", rows |-> rows, text |-> <<>>]
TextTask(text)  == [hint |-> "PDF", rows |-> <<>>, text |-> text]

\* A batching loop that does not queue the rows left in the batch when the
\* table ends.
RECURSIVE TableLoopSizedUnflushed(_, _, _, _, _)
TableLoopSizedUnflushed(table, i, current_batch, tasks, batch_size) ==
  IF i > Len(table) THEN tasks
  ELSE IF ~KeepRow(table[i])
    THEN TableLoopSizedUnflushed(table, i + 1, current_batch, tasks, batch_size)
  ELSE
    LET batch == Append(current_batch, table[i]) IN
    IF Len(batch) >= batch_size
      THEN TableLoopSizedUnflushed(table, i + 1, <<>>,
                                   Append(tasks, BatchTask(batch)), batch_size)
    ELSE TableLoopSizedUnflushed(table, i + 1, batch, tasks, batch_size)

\* The batching loop over the rows of one table, from row i on, for a
\* ROW_BATCH_SIZE of batch_size.
RECURSIVE TableLoopSized(_, _, _, _, _)
TableLoopSized(table, i, current_batch, tasks, batch_size) ==
  IF i > Len(table)
    THEN IF current_batch # <<>>
           THEN Append(tasks, BatchTask(current_batch)) ELSE tasks
  ELSE IF ~KeepRow(table[i])
    THEN TableLoopSized(table, i + 1, current_batch, tasks, batch_size)
  ELSE
    LET batch == Append(current_batch, table[i]) IN
    IF Len(batch) >= batch_size
      THEN TableLoopSized(table, i + 1, <<>>,
                          Append(tasks, BatchTask(batch)), batch_size)
    ELSE TableLoopSized(table, i + 1, batch, tasks, batch_size)

\* The batching loop with the batch size of the program.
TableLoop(table, i, current_batch, tasks) ==
  TableLoopSized(table, i, current_batch, tasks, ROW_BATCH_SIZE)

\* The loop over the tables of a page, current_batch starting empty for
\* each table, for a ROW_BATCH_SIZE of batch_size.
RECURSIVE TablesLoopSized(_, _, _, _)
TablesLoopSized(tables, i, tasks, batch_size) ==
  IF i > Len(tables) THEN tasks
  ELSE TablesLoopSized(tables, i + 1,
                       TableLoopSized(tables[i], 1, <<>>, tasks, batch_size),
                       batch_size)

TablesLoop(tables, i, tasks) ==
  TablesLoopSized(tables, i, tasks, ROW_BATCH_SIZE)

\* The loop over the pages of a PDF: the tables of a page, or its raw text
\* when it has no table.
RECURSIVE PagesLoop(_, _, _)
PagesLoop(pages, i, tasks) ==
  IF i > Len(pages) THEN tasks
  ELSE IF pages[i].tables # <<>>
    THEN PagesLoop(pages, i + 1, TablesLoop(pages[i].tables, 1, tasks))
  ELSE IF pages[i].text # <<>>
    THEN PagesLoop(pages, i + 1, Append(tasks, TextTask(pages[i].text)))
  ELSE PagesLoop(pages, i + 1, tasks)

\* A chunk loop whose slice leaves out the last record of a full chunk.
RECURSIVE CsvLoopShortSlice(_, _, _)
CsvLoopShortSlice(records, i, tasks) ==
  IF i > Len(records) THEN tasks
  ELSE
    LET last == IF i + CHUNK_SIZE_LINES - 1 < Len(records)
                THEN i + CHUNK_SIZE_LINES - 2 ELSE Len(records)
    IN  CsvLoopShortSlice(records, i + CHUNK_SIZE_LINES,
                          Append(tasks, BatchTask(SubSeq(records, i, last))))

\* for i in range(0, len(df), CHUNK_SIZE_LINES): df.iloc[i : i + CHUNK_SIZE_LINES]
RECURSIVE CsvLoop(_, _, _)
CsvLoop(records, i, tasks) ==
  IF i > Len(records) THEN tasks
  ELSE
    LET last == IF i + CHUNK_SIZE_LINES - 1 < Len(records)
                THEN i + CHUNK_SIZE_LINES - 1 ELSE Len(records)
    IN  CsvLoop(records, i + CHUNK_SIZE_LINES,
                Append(tasks, BatchTask(SubSeq(records, i, last))))

\* The tasks process_file queues for a file: content is what the libraries
\* read from it (pages of a PDF, records of a CSV).
Segment(ext, content) ==
  IF ext = S_pdf THEN PagesLoop(content.pages, 1, <<>>)
  ELSE IF ext = S_csv THEN CsvLoop(content.records, 1, <<>>)
  ELSE <<>>

\* pdf.pages[0].extract_text() or "", when the PDF has a page.
FirstPageText(ext, content) ==
  IF ext = S_pdf /\ content.pages # <<>> THEN content.pages[1].text ELSE <<>>

----------------------------------------------------------------------------
(* categorizer.py: Categorizer *)

\* INSERT OR REPLACE INTO category_map: the rule of the same keyword is
\* deleted and the new rule gets a new, highest rowid.
RECURSIVE DeleteKeyword(_, _)
DeleteKeyword(rules, keyword) ==
  IF rules = <<>> THEN <<>>
  ELSE IF Head(rules).keyword = keyword THEN DeleteKeyword(Tail(rules), keyword)
  ELSE <<Head(rules)>> \o DeleteKeyword(Tail(rules), keyword)

\* The rule stored under the keyword as it was typed.
InsertRuleAsTyped(rules, keyword, category) ==
  Append(DeleteKeyword(rules, keyword),
         [keyword |-> keyword, category |-> category])

InsertOrReplaceRule(rules, keyword, category) ==
  Append(DeleteKeyword(rules, Lower(keyword)),
         [keyword |-> Lower(keyword), category |-> category])

\* x LIKE pattern: "%" is any run of characters, "_" any one character, and
\* letters match ignoring case.
RECURSIVE Like(_, _)
Like(x, pattern) ==
  IF pattern = <<>> THEN x = <<>>
  ELSE IF Head(pattern) = "%"
    THEN Like(x, Tail(pattern)) \/ (x # <<>> /\ Like(Tail(x), pattern))
  ELSE IF x = <<>> THEN FALSE
  ELSE IF Head(pattern) = "_" THEN Like(Tail(x), Tail(pattern))
  ELSE LowerCh(Head(x)) = LowerCh(Head(pattern)) /\ Like(Tail(x), Tail(pattern))

\* rules.sort(key=lambda x: len(x[0]), reverse=True): a stable sort, so rules
\* of equal length stay in fetch (rowid) order.
RECURSIVE InsertByLength(_, _)
InsertByLength(sorted, rule) ==
  IF sorted = <<>> THEN <<rule>>
  ELSE IF Len(Head(sorted).keyword) >= Len(rule.keyword)
    THEN <<Head(sorted)>> \o InsertByLength(Tail(sorted), rule)
  ELSE <<rule>> \o sorted

\* The rules left in fetch order.
SortRulesSkipped(rules) == rules

RECURSIVE SortRules(_)
SortRules(rules) ==
  IF rules = <<>> THEN <<>>
  ELSE InsertByLength(SortRules(SubSeq(rules, 1, Len(rules) - 1)),
                      rules[Len(rules)])

\* The ids the second SELECT of run_updates fetches (an id is the position
\* of the row in the table).
SweepScope(rows, target_keyword) ==
  IF target_keyword # <<>>
  THEN {i \in 1..Len(rows) :
          Like(rows[i].merchant, <<"%">> \o target_keyword \o <<"%">>)}
  ELSE {i \in 1..Len(rows) : rows[i].category = Uncategorized}

\* The inner loop: the category of the first rule, in sorted order, whose
\* key is in merch_lower; matched = FALSE when no rule is.
FirstMatch(rules, merchant) ==
  LET merch_lower == Lower(merchant)
      hit == {k \in 1..Len(rules) : Contains(merch_lower, rules[k].keyword)}
  IN  IF hit = {} THEN [matched |-> FALSE, category |-> Uncategorized]
      ELSE [matched |-> TRUE,
            category |-> rules[CHOOSE k \in hit : \A j \in hit : k <= j].category]

\* A loop that gives a fetched row no rule matches the category of the
\* first rule.
ComputeUpdatesUnmatched(rules, fetched) ==
  LET ids == {i \in DOMAIN fetched : fetched[i] # <<>> /\ rules # <<>>}
  IN  [i \in ids |->
         IF FirstMatch(rules, fetched[i]).matched
           THEN FirstMatch(rules, fetched[i]).category
         ELSE rules[1].category]

\* updates: the (category, id) pairs of the fetched rows, as a function from
\* the ids that get a category to it. fetched is the (id, merchant) list.
ComputeUpdates(rules, fetched) ==
  LET ids == {i \in DOMAIN fetched :
                fetched[i] # <<>> /\ FirstMatch(rules, fetched[i]).matched}
  IN  [i \in ids |-> FirstMatch(rules, fetched[i]).category]

\* An UPDATE that clears the category of a row that already has it.
ApplyUpdatesToggling(rows, updates) ==
  [i \in 1..Len(rows) |->
     IF i \in DOMAIN updates
       THEN [rows[i] EXCEPT !.category =
               IF @ = updates[i] THEN Uncategorized ELSE updates[i]]
     ELSE rows[i]]

\* c.executemany("UPDATE transactions SET category=? WHERE id=?", updates)
ApplyUpdates(rows, updates) ==
  [i \in 1..Len(rows) |->
     IF i \in DOMAIN updates THEN [rows[i] EXCEPT !.category = updates[i]]
     ELSE rows[i]]

----------------------------------------------------------------------------
(* The state *)

VARIABLES
  transactions,    \* the rows of table transactions, in id order (id = index)
  processed_files, \* the rows of table processed_files: [file_hash, filename]
  category_map,    \* the rows of table category_map, in rowid order
  pc,              \* where each caller is in its process_file or teach call
  call,            \* the locals of each caller's call
  seen,            \* the digests process_file has been called on before
  nops             \* the number of calls started

vars == <<transactions, processed_files, category_map, pc, call, seen, nops>>

Callers == {1, 2}

NoReply == [kind |-> "none", items |-> <<>>]

NoAnswer == [kind |-> "none", text |-> <<>>]

\* The locals of a caller that is in no call.
\* No file: what a path with nothing behind it reads as.
NoFile ==
  [exists |-> FALSE, bytes |-> "", readable |-> FALSE,
   pages |-> <<>>, records |-> <<>>]

BlankCall ==
  [op |-> "none", filepath |-> <<>>, f_hash |-> "", repeat |-> FALSE,
   detected_method |-> UNKNOWN, tasks |-> <<>>, futures |-> <<>>,
   replies |-> <<>>, results |-> <<>>, all_transactions |-> <<>>,
   count |-> 0, target_keyword |-> <<>>, rules |-> <<>>, fetched |-> <<>>,
   updates |-> <<>>, outcome |-> "", oracle_calls |-> 0,
   category |-> "", seq |-> 0, answer |-> NoAnswer, content |-> NoFile,
   pre_rows |-> <<>>, pre_files |-> {}, pre_map |-> <<>>]

Init ==
  /\ transactions = <<>>
  /\ processed_files = {}
  /\ category_map = <<>>
  /\ pc = [c \in Callers |-> "idle"]
  /\ call = [c \in Callers |-> BlankCall]
  /\ seen = {}
  /\ nops = 0

\* A new call of caller c, with the store as it is when the call starts and
\* the number of calls started before it.
NewCall(op) ==
  [BlankCall EXCEPT !.op = op, !.seq = nops, !.pre_rows = transactions,
                    !.pre_files = processed_files, !.pre_map = category_map]

\* get_file_hash: MD5 of the bytes, one digest per content.
GetFileHash(file) == file.bytes

\* is_file_processed with the lookup on the wrong column.
IsFileProcessedByName(file_hash) ==
  \E r \in processed_files : r.filename = <<file_hash>>

\* is_file_processed
IsFileProcessed(file_hash) ==
  \E r \in processed_files : r.file_hash = file_hash

----------------------------------------------------------------------------
(* process_file *)

\* A missing file that is recorded as processed all the same.
ProcessFileNotFoundRecorded(c, filepath, file, MaxOps) ==
  /\ pc[c] = "idle"
  /\ nops < MaxOps
  /\ ~file.exists
  /\ pc' = [pc EXCEPT ![c] = "done"]
  /\ call' = [call EXCEPT ![c] =
       [NewCall("process_file") EXCEPT !.filepath = filepath,
                                       !.outcome = "not_found"]]
  /\ processed_files' = processed_files \cup
       {[file_hash |-> "", filename |-> Basename(filepath)]}
  /\ nops' = nops + 1
  /\ UNCHANGED <<transactions, category_map, seen>>

\* os.path.exists(filepath) is false: "File not found", return.
ProcessFileNotFound(c, filepath, file, MaxOps) ==
  /\ pc[c] = "idle"
  /\ nops < MaxOps
  /\ ~file.exists
  /\ pc' = [pc EXCEPT ![c] = "done"]
  /\ call' = [call EXCEPT ![c] =
       [NewCall("process_file") EXCEPT !.filepath = filepath,
                                       !.outcome = "not_found"]]
  /\ nops' = nops + 1
  /\ UNCHANGED <<transactions, processed_files, category_map, seen>>

\* The digest is in processed_files: "Skipping", return.
ProcessFileSkip(c, filepath, file, MaxOps) ==
  /\ pc[c] = "idle"
  /\ nops < MaxOps
  /\ file.exists
  /\ IsFileProcessed(GetFileHash(file))
  /\ pc' = [pc EXCEPT ![c] = "done"]
  /\ call' = [call EXCEPT ![c] =
       [NewCall("process_file") EXCEPT
          !.filepath = filepath, !.f_hash = GetFileHash(file),
          !.repeat = GetFileHash(file) \in seen, !.outcome = "skipped"]]
  /\ seen' = seen \cup {GetFileHash(file)}
  /\ nops' = nops + 1
  /\ UNCHANGED <<transactions, processed_files, category_map>>

\* The digest is not in processed_files: the instrument is inferred (asking
\* the Oracle when a PDF has text on its first page), the file is cut into
\* tasks, and the tasks are submitted to the pool. An unreadable CSV and a
\* file with no task end the call here.
ProcessFileSegment(c, filepath, file, answer, MaxOps) ==
  LET ext == Extension(filepath)
      first_page == FirstPageText(ext, file)
      asks == ext = S_pdf /\ first_page # <<>>
      method == IF ext = S_csv \/ (ext = S_pdf /\ file.pages # <<>>)
                THEN InferPaymentMethod(filepath, first_page, answer)
                ELSE UNKNOWN
      csv_error == ext = S_csv /\ ~file.readable
      tasks == IF csv_error THEN <<>> ELSE Segment(ext, file)
      base == [NewCall("process_file") EXCEPT
                 !.filepath = filepath, !.f_hash = GetFileHash(file),
                 !.repeat = GetFileHash(file) \in seen,
                 !.detected_method = method, !.answer = answer,
                 !.content = file,
                 !.oracle_calls = IF asks THEN 1 ELSE 0]
  IN
  /\ pc[c] = "idle"
  /\ nops < MaxOps
  /\ file.exists
  /\ ~IsFileProcessed(GetFileHash(file))
  /\ asks <=> answer # NoAnswer
  /\ IF csv_error
       THEN /\ pc' = [pc EXCEPT ![c] = "done"]
            /\ call' = [call EXCEPT ![c] = [base EXCEPT !.outcome = "csv_error"]]
     ELSE IF tasks = <<>>
       THEN /\ pc' = [pc EXCEPT ![c] = "done"]
            /\ call' = [call EXCEPT ![c] = [base EXCEPT !.outcome = "no_data"]]
     ELSE /\ pc' = [pc EXCEPT ![c] = "pool"]
          /\ call' = [call EXCEPT ![c] =
               [base EXCEPT !.tasks = tasks,
                            !.futures = [i \in 1..Len(tasks) |-> "pending"],
                            !.replies = [i \in 1..Len(tasks) |-> NoReply],
                            !.results = [i \in 1..Len(tasks) |-> <<>>]]]
  /\ seen' = seen \cup {GetFileHash(file)}
  /\ nops' = nops + 1
  /\ UNCHANGED <<transactions, processed_files, category_map>>

\* The tasks whose Oracle call is under way, a worker waiting in chat().
Running(c) ==
  {i \in 1..Len(call[c].futures) : call[c].futures[i] \in {"running", "hung"}}

\* A pool that starts a worker for every queued task at once.
WorkerStartUnbounded(c, i) ==
  /\ pc[c] = "pool"
  /\ i \in 1..Len(call[c].futures)
  /\ call[c].futures[i] = "pending"
  /\ \A j \in 1..(i - 1) : call[c].futures[j] # "pending"
  /\ call' = [call EXCEPT ![c].futures[i] = "running",
                          ![c].oracle_calls = @ + 1]
  /\ UNCHANGED <<transactions, processed_files, category_map, pc, seen, nops>>

\* A worker of the pool takes the next queued task (the queue is first in,
\* first out) and calls the Oracle; at most MAX_WORKERS tasks run at once.
WorkerStart(c, i) ==
  /\ pc[c] = "pool"
  /\ i \in 1..Len(call[c].futures)
  /\ call[c].futures[i] = "pending"
  /\ \A j \in 1..(i - 1) : call[c].futures[j] # "pending"
  /\ Cardinality(Running(c)) < MAX_WORKERS
  /\ call' = [call EXCEPT ![c].futures[i] = "running",
                          ![c].oracle_calls = @ + 1]
  /\ UNCHANGED <<transactions, processed_files, category_map, pc, seen, nops>>

\* The Oracle never answers the call of task i: chat() has no timeout, the
\* worker stays in it and the future is never completed.
OracleHangs(c, i) ==
  /\ pc[c] = "pool"
  /\ i \in 1..Len(call[c].futures)
  /\ call[c].futures[i] = "running"
  /\ call' = [call EXCEPT ![c].futures[i] = "hung"]
  /\ UNCHANGED <<transactions, processed_files, category_map, pc, seen, nops>>

\* An as_completed loop that assigns the result to all_transactions
\* instead of extending it.
WorkerFinishAssigning(c, i, reply) ==
  /\ pc[c] = "pool"
  /\ i \in 1..Len(call[c].futures)
  /\ call[c].futures[i] = "running"
  /\ call' = [call EXCEPT ![c].futures[i] = "done",
                          ![c].replies[i] = reply,
                          ![c].results[i] = ExtractChunk(reply),
                          ![c].all_transactions = ExtractChunk(reply)]
  /\ UNCHANGED <<transactions, processed_files, category_map, pc, seen, nops>>

\* The Oracle call of task i comes back with reply; extract_chunk returns
\* its list, and the as_completed loop extends all_transactions with it.
WorkerFinish(c, i, reply) ==
  /\ pc[c] = "pool"
  /\ i \in 1..Len(call[c].futures)
  /\ call[c].futures[i] = "running"
  /\ call' = [call EXCEPT ![c].futures[i] = "done",
                          ![c].replies[i] = reply,
                          ![c].results[i] = ExtractChunk(reply),
                          ![c].all_transactions = @ \o ExtractChunk(reply)]
  /\ UNCHANGED <<transactions, processed_files, category_map, pc, seen, nops>>

\* save_transactions with the processed-file record written before the
\* save has committed.
SaveRecordingFirst(c) ==
  LET r == SaveTransactions(transactions, call[c].all_transactions,
                            Basename(call[c].filepath), call[c].detected_method)
  IN
  /\ pc[c] = "pool"
  /\ \A i \in 1..Len(call[c].futures) : call[c].futures[i] = "done"
  /\ processed_files' = processed_files \cup
       {[file_hash |-> call[c].f_hash, filename |-> Basename(call[c].filepath)]}
  /\ IF r.raised
       THEN /\ pc' = [pc EXCEPT ![c] = "done"]
            /\ call' = [call EXCEPT ![c].outcome = "raised"]
            /\ UNCHANGED transactions
       ELSE /\ pc' = [pc EXCEPT ![c] = "fetch_rules"]
            /\ call' = [call EXCEPT ![c].count = r.count]
            /\ transactions' = r.rows
  /\ UNCHANGED <<category_map, seen, nops>>

\* save_transactions committing after every INSERT: the rows inserted
\* before an exception stay in the store.
SaveCommittingEachRow(c) ==
  LET r == SaveTransactions(transactions, call[c].all_transactions,
                            Basename(call[c].filepath), call[c].detected_method)
  IN
  /\ pc[c] = "pool"
  /\ \A i \in 1..Len(call[c].futures) : call[c].futures[i] = "done"
  /\ transactions' = r.rows
  /\ IF r.raised
       THEN /\ pc' = [pc EXCEPT ![c] = "done"]
            /\ call' = [call EXCEPT ![c].outcome = "raised"]
       ELSE /\ pc' = [pc EXCEPT ![c] = "log"]
            /\ call' = [call EXCEPT ![c].count = r.count]
  /\ UNCHANGED <<processed_files, category_map, seen, nops>>

\* All futures are done: save_transactions. It commits once, after its
\* loop; an exception leaves process_file with nothing committed.
Save(c) ==
  LET r == SaveTransactions(transactions, call[c].all_transactions,
                            Basename(call[c].filepath), call[c].detected_method)
  IN
  /\ pc[c] = "pool"
  /\ \A i \in 1..Len(call[c].futures) : call[c].futures[i] = "done"
  /\ IF r.raised
       THEN /\ pc' = [pc EXCEPT ![c] = "done"]
            /\ call' = [call EXCEPT ![c].outcome = "raised"]
            /\ UNCHANGED transactions
       ELSE /\ pc' = [pc EXCEPT ![c] = "log"]
            /\ call' = [call EXCEPT ![c].count = r.count]
            /\ transactions' = r.rows
  /\ UNCHANGED <<processed_files, category_map, seen, nops>>

\* A process_file that records the digest only when rows were saved.
LogFileProcessedWhenSaved(c) ==
  /\ pc[c] = "log"
  /\ IF IsFileProcessed(call[c].f_hash)
       THEN /\ pc' = [pc EXCEPT ![c] = "done"]
            /\ call' = [call EXCEPT ![c].outcome = "raised"]
            /\ UNCHANGED processed_files
       ELSE /\ pc' = [pc EXCEPT ![c] = "fetch_rules"]
            /\ processed_files' =
                 IF call[c].count > 0
                   THEN processed_files \cup
                          {[file_hash |-> call[c].f_hash,
                            filename |-> Basename(call[c].filepath)]}
                 ELSE processed_files
            /\ UNCHANGED call
  /\ UNCHANGED <<transactions, category_map, seen, nops>>

\* log_file_processed: file_hash is the primary key, so the INSERT raises
\* IntegrityError when the digest is already there.
LogFileProcessed(c) ==
  /\ pc[c] = "log"
  /\ IF IsFileProcessed(call[c].f_hash)
       THEN /\ pc' = [pc EXCEPT ![c] = "done"]
            /\ call' = [call EXCEPT ![c].outcome = "raised"]
            /\ UNCHANGED processed_files
       ELSE /\ pc' = [pc EXCEPT ![c] = "fetch_rules"]
            /\ processed_files' = processed_files \cup
                 {[file_hash |-> call[c].f_hash,
                   filename |-> Basename(call[c].filepath)]}
            /\ UNCHANGED call
  /\ UNCHANGED <<transactions, category_map, seen, nops>>

----------------------------------------------------------------------------
(* teach and run_updates *)

\* add_rule that goes to run_updates(keyword) with the rule not written.
AddRuleUnwritten(c, keyword, category, MaxOps) ==
  /\ pc[c] = "idle"
  /\ nops < MaxOps
  /\ pc' = [pc EXCEPT ![c] = "fetch_rules"]
  /\ call' = [call EXCEPT ![c] =
       [NewCall("teach") EXCEPT !.target_keyword = keyword,
                                !.category = category]]
  /\ nops' = nops + 1
  /\ UNCHANGED <<transactions, processed_files, category_map, seen>>

\* add_rule: the rule is written and committed, then run_updates(keyword).
AddRule(c, keyword, category, MaxOps) ==
  /\ pc[c] = "idle"
  /\ nops < MaxOps
  /\ category_map' = InsertOrReplaceRule(category_map, keyword, category)
  /\ pc' = [pc EXCEPT ![c] = "fetch_rules"]
  /\ call' = [call EXCEPT ![c] =
       [NewCall("teach") EXCEPT !.target_keyword = keyword,
                                !.category = category]]
  /\ nops' = nops + 1
  /\ UNCHANGED <<transactions, processed_files, seen>>

\* run_updates, 1: fetch the rules and sort them.
FetchRules(c) ==
  /\ pc[c] = "fetch_rules"
  /\ call' = [call EXCEPT ![c].rules = SortRules(category_map)]
  /\ pc' = [pc EXCEPT ![c] = "fetch_rows"]
  /\ UNCHANGED <<transactions, processed_files, category_map, seen, nops>>

\* run_updates, 2: fetch the transactions of the scope and match them.
FetchRows(c) ==
  LET scope == SweepScope(transactions, call[c].target_keyword)
      fetched == [i \in scope |-> transactions[i].merchant]
  IN
  /\ pc[c] = "fetch_rows"
  /\ call' = [call EXCEPT ![c].fetched = fetched,
                          ![c].updates = ComputeUpdates(call[c].rules, fetched)]
  /\ pc' = [pc EXCEPT ![c] = "write_updates"]
  /\ UNCHANGED <<transactions, processed_files, category_map, seen, nops>>

\* run_updates, 3: the batched UPDATE and commit, when there are updates.
WriteUpdates(c) ==
  /\ pc[c] = "write_updates"
  /\ transactions' = ApplyUpdates(transactions, call[c].updates)
  /\ call' = [call EXCEPT ![c].outcome = "returned"]
  /\ pc' = [pc EXCEPT ![c] = "done"]
  /\ UNCHANGED <<processed_files, category_map, seen, nops>>

\* run_updates called again with the scope of the sweep that has just ended.
RunUpdatesAgain(c, MaxOps) ==
  /\ pc[c] = "done"
  /\ call[c].outcome = "returned"
  /\ nops < MaxOps
  /\ pc' = [pc EXCEPT ![c] = "fetch_rules"]
  /\ call' = [call EXCEPT ![c] =
       [NewCall("run_updates") EXCEPT !.target_keyword = call[c].target_keyword]]
  /\ nops' = nops + 1
  /\ UNCHANGED <<transactions, processed_files, category_map, seen>>

\* The call is over; the caller may make another.
Return(c) ==
  /\ pc[c] = "done"
  /\ pc' = [pc EXCEPT ![c] = "idle"]
  /\ call' = [call EXCEPT ![c] = BlankCall]
  /\ UNCHANGED <<transactions, processed_files, category_map, seen, nops>>

----------------------------------------------------------------------------
(* The files, the Oracle's replies and the rules the model draws from *)

P_stmt  == <<"i","n","/","s","t","m","t",".","c","s","v">>
P_copy  == <<"i","n","/","c","o","p","y",".","c","s","v">>
P_redo  == <<"n","e","w","/","s","t","m","t",".","c","s","v">>
P_old   == <<"o","l","d","/","s","t","m","t",".","c","s","v">>
P_upi   == <<"i","n","/","u","p","i",".","c","s","v">>
P_bank  == <<"i","n","/","b","a","n","k",".","p","d","f">>
P_one   == <<"i","n","/","o","n","e",".","c","s","v">>
P_dup   == <<"i","n","/","d","u","p",".","c","s","v">>
P_card  == <<"i","n","/","c","a","r","d",".","p","d","f">>
P_blank == <<"i","n","/","b","l","a","n","k",".","p","d","f">>
P_many  == <<"i","n","/","m","a","n","y",".","c","s","v">>
P_none  == <<"i","n","/","n","o","n","e",".","c","s","v">>
P_bad   == <<"i","n","/","b","a","d",".","c","s","v">>

\* A CSV file of n records.
CsvFile(bytes, n) ==
  [exists |-> TRUE, bytes |-> bytes, readable |-> TRUE, pages |-> <<>>,
   records |-> [i \in 1..n |-> <<Str(NatStr(i))>>]]

PdfFile(bytes, pages) ==
  [exists |-> TRUE, bytes |-> bytes, readable |-> TRUE, pages |-> pages,
   records |-> <<>>]

HeaderRow == <<Str(<<"D","a","t","e">>), Str(<<"M","e","r","c","h","a","n","t">>), Str(<<"A","m","o","u","n","t">>)>>
FooterRow == <<Str(<<"P","a","g","e"," ","1">>), Str(<<"o","f"," ","2">>)>>
JunkRow   == <<Null, Str(<<"x">>), Null>>
DataRow   == <<Str(<<"0","1","/","0","2","/","2","0","2","5">>), Str(<<"S","t","a","r","b","u","c","k","s">>), Str(<<"2","5","0">>)>>

\* What is on disk: in/stmt.csv and in/copy.csv hold the same bytes, as do
\* in/one.csv and in/dup.csv; new/stmt.csv and old/stmt.csv have the name of
\* in/stmt.csv and bytes of their own; in/upi.csv has one record;
\* in/bank.pdf has a table and no text on its first page; in/many.csv has
\* records for three chunks; in/none.csv does not exist; in/bad.csv cannot
\* be parsed.
FileAt(path) ==
  CASE path \in {P_stmt, P_copy} -> CsvFile("B1", CHUNK_SIZE_LINES + 1)
    [] path = P_redo -> CsvFile("B2", 1)
    [] path = P_old -> CsvFile("B7", 1)
    [] path = P_upi -> CsvFile("B8", 1)
    [] path \in {P_one, P_dup} -> CsvFile("B3", 1)
    [] path = P_card ->
         PdfFile("B4",
           <<[text |-> <<"C","r","e","d","i","t"," ","C","a","r","d"," ","S","t","a","t","e","m","e","n","t">>,
              tables |-> << <<HeaderRow, DataRow, JunkRow, FooterRow>> >>],
             [text |-> <<"0","2","/","0","2","/","2","0","2","5"," ","A","m","a","z","o","n"," ","1","0","0">>, tables |-> <<>>]>>)
    [] path = P_blank ->
         PdfFile("B5",
           <<[text |-> <<"A","c","c","o","u","n","t"," ","S","t","a","t","e","m","e","n","t">>,
              tables |-> << <<HeaderRow, FooterRow>> >>]>>)
    [] path = P_bank ->
         PdfFile("B9", <<[text |-> <<>>, tables |-> << <<HeaderRow, DataRow>> >>]>>)
    [] path = P_many -> CsvFile("B10", 2 * CHUNK_SIZE_LINES + 1)
    [] path = P_bad ->
         [exists |-> TRUE, bytes |-> "B6", readable |-> FALSE,
          pages |-> <<>>, records |-> <<>>]
    [] OTHER -> NoFile

D_iso   == <<"2","0","2","5","-","0","1","-","0","1">>
D_slash == <<"0","1","/","0","1","/","2","0","2","5">>
D_long  == <<"2","0","2","5","-","0","1","-","0","1","T","0","9">>
D_month == <<"2","0","2","5","-","1","3","-","4","5">>

M_aws     == <<"A","M","A","Z","O","N"," ","A","W","S"," ","P","A","Y","M","E","N","T">>
M_star    == <<"S","t","a","r","b","u","c","k","s">>
M_example == <<"E","X","A","M","P","L","E","_","M","E","R","C","H","A","N","T","_","O","N","L","Y">>

T_R1 == Str(<<"R","1">>)
T_R2 == Str(<<"R","2">>)

\* Candidates the Oracle may return.
C_star    == Candidate(T_R1, Str(D_iso), Str(M_star), Num(250), Str(DEBIT), Absent, Absent)
C_refund  == Candidate(T_R1, Str(D_iso), Str(M_star), Num(250), Str(CREDIT), Absent, Absent)
C_aws     == Candidate(T_R2, Str(D_iso), Str(M_aws), Num(90), Absent, Str(UPI), Absent)
C_noid    == Candidate(Absent, Str(D_iso), Str(M_aws), Str(<<"-","1",",","2","0","0">>), Absent, Absent, Absent)
C_noid2   == Candidate(Absent, Str(D_iso), Str(M_aws), Num(1200), Str(CREDIT), Str(CASH), Absent)
C_neg     == Candidate(Absent, Str(D_iso), Str(M_star), Num(0 - 5), Absent, Absent, Absent)
C_example == Candidate(T_R2, Str(D_iso), Str(M_example), Num(100), Str(DEBIT), Str(UNKNOWN), Absent)
C_zero    == Candidate(T_R2, Str(D_iso), Str(M_star), Num(0), Absent, Absent, Absent)
C_zerostr == Candidate(T_R2, Str(D_iso), Str(M_star), Str(<<"0">>), Absent, Absent, Absent)
C_noamt   == Candidate(T_R2, Str(D_iso), Str(M_star), Absent, Absent, Absent, Absent)
C_slash   == Candidate(T_R2, Str(D_slash), Str(M_star), Num(7), Absent, Absent, Absent)
C_long    == Candidate(T_R2, Str(D_long), Str(M_star), Num(7), Absent, Absent, Absent)
C_month   == Candidate(T_R2, Str(D_month), Str(M_star), Num(7), Absent, Absent, Absent)
C_nodate  == Candidate(T_R2, Absent, Str(M_star), Num(7), Absent, Absent, Absent)
C_nan     == Candidate(T_R2, Str(D_iso), Str(M_star), NaN, Absent, Absent, Absent)
C_words   == Candidate(T_R2, Str(D_iso), Str(M_star), Str(<<"n","/","a">>), Absent, Absent, Absent)
C_badpm   == Candidate(T_R2, Str(D_iso), Str(M_star), Num(7), Absent, Num(5), Absent)
C_nullm   == Candidate(T_R2, Str(D_iso), Null, Num(7), Absent, Absent, Absent)

K_amazon     == <<"a","m","a","z","o","n">>
K_amazon_aws == <<"A","m","a","z","o","n"," ","A","W","S">>
K_starbucks  == <<"s","t","a","r","b","u","c","k","s">>

----------------------------------------------------------------------------
(* Spec: one caller makes process_file and teach calls one after another *)

MaxOps == 3

Paths == {P_stmt, P_copy, P_redo, P_blank, P_none, P_bad}

Replies ==
  {Reply("raise", <<>>), Reply("malformed", <<>>),
   Reply("list", <<C_star>>), Reply("wrapped", <<C_refund, C_noid>>),
   Reply("list", <<C_aws, C_badpm>>)}

RaiseAnswer == [kind |-> "raise", text |-> <<>>]

TextAnswer(text) == [kind |-> "text", text |-> text]

Answers == {NoAnswer, RaiseAnswer, TextAnswer(<<"C","r","e","d","i","t"," ","C","a","r","d">>)}

Keywords == {K_starbucks}

Categories == {"Coffee"}

\* The steps of a call under way.
Step(c, replies) ==
  \/ \E i \in 1..MAX_WORKERS + 1 : WorkerStart(c, i)
  \/ \E i \in 1..MAX_WORKERS + 1 : \E reply \in replies : WorkerFinish(c, i, reply)
  \/ Save(c)
  \/ LogFileProcessed(c)
  \/ FetchRules(c)
  \/ FetchRows(c)
  \/ WriteUpdates(c)
  \/ Return(c)

Next ==
  \/ \E p \in Paths : ProcessFileNotFound(1, p, FileAt(p), MaxOps)
  \/ \E p \in Paths : ProcessFileSkip(1, p, FileAt(p), MaxOps)
  \/ \E p \in Paths : \E a \in Answers :
       ProcessFileSegment(1, p, FileAt(p), a, MaxOps)
  \/ \E k \in Keywords : \E cat \in Categories : AddRule(1, k, cat, MaxOps)
  \/ Step(1, Replies)

Spec == Init /\ [][Next]_vars

----------------------------------------------------------------------------
(* Shared vocabulary of the properties *)

\* The call of caller c has come back from save_transactions.
Saved(c) ==
  /\ call[c].op = "process_file"
  /\ \/ pc[c] \in {"log", "fetch_rules", "fetch_rows", "write_updates"}
     \/ pc[c] = "done" /\ call[c].outcome = "returned"

HashesOf(files) == {r.file_hash : r \in files}

RowSet(rows) == {rows[i] : i \in 1..Len(rows)}

----------------------------------------------------------------------------
(* C1 *)

\* C1 as stated: in a process_file call on content an earlier process_file
\* call was given, no transaction is inserted, no processed-file record is
\* written, no Oracle call is made and no category changes.
C1_SecondCallNoOp ==
  \A c \in Callers :
    (call[c].op = "process_file" /\ call[c].repeat) =>
      /\ transactions = call[c].pre_rows
      /\ processed_files = call[c].pre_files
      /\ call[c].oracle_calls = 0

\* C1, amended: a process_file call on content whose digest an earlier call
\* recorded in processed_files, under the same or another filename, is
\* skipped: it inserts no transaction, writes no processed-file record,
\* makes no Oracle call and changes no category.
C1_RecordedDigestNoOp ==
  \A c \in Callers :
    (call[c].op = "process_file" /\ call[c].f_hash \in HashesOf(call[c].pre_files)) =>
      /\ call[c].outcome = "skipped"
      /\ transactions = call[c].pre_rows
      /\ processed_files = call[c].pre_files
      /\ category_map = call[c].pre_map
      /\ call[c].oracle_calls = 0

\* A second call on recorded content under a filename other than the
\* recorded one, with transactions of the first call in the store.
C1_Witness ==
  \E c \in Callers :
    /\ call[c].outcome = "skipped"
    /\ call[c].repeat
    /\ transactions # <<>>
    /\ \E r \in processed_files :
         r.file_hash = call[c].f_hash /\ r.filename # Basename(call[c].filepath)

----------------------------------------------------------------------------
(* C2 *)

\* C2: no two stored transactions share the same (transaction_id,
\* source_file) pair.
C2_CompositeKeyUnique ==
  \A i, j \in 1..Len(transactions) :
    (/\ transactions[i].transaction_id = transactions[j].transaction_id
     /\ transactions[i].source_file = transactions[j].source_file) => i = j

\* A save that was offered a candidate whose key was already stored: fewer
\* rows were inserted than candidates were saveable.
C2_Witness ==
  \E c \in Callers :
    /\ Saved(c)
    /\ call[c].all_transactions # <<>>
    /\ \A i \in 1..Len(call[c].all_transactions) :
         /\ ~SkippedBySave(call[c].all_transactions[i])
         /\ CleanAmount(call[c].all_transactions[i].amount).ok
    /\ call[c].count < Len(call[c].all_transactions)
    /\ Len(transactions) >= 2

----------------------------------------------------------------------------
(* C7 *)

\* The Oracle raised, or its content is not JSON, for task i of c's call.
FragmentFailed(c, i) == call[c].replies[i].kind \in {"raise", "malformed"}

\* A candidate with a merchant that is not the placeholder, an amount that
\* is a number and a date of the pattern.
ValidCandidate(t) ==
  /\ t.merchant.t = "str" /\ Truthy(t.merchant) /\ ~IsExampleMerchant(t)
  /\ Truthy(t.amount) /\ CleanAmount(t.amount).ok
  /\ DateMatches(t)

\* Candidate t is in the store under filename.
Persisted(t, filename) ==
  \E k \in 1..Len(transactions) :
    /\ transactions[k].transaction_id = ResolveTxId(t, CleanAmount(t.amount))
    /\ transactions[k].source_file = filename

\* C7: when the Oracle raised or answered with malformed content for some
\* fragments, the finished process_file call was not aborted, the failing
\* fragments contributed no candidate, and every valid candidate of every
\* other fragment is in the store.
C7_FailureIsolated ==
  \A c \in Callers :
    (/\ call[c].op = "process_file"
     /\ pc[c] = "done"
     /\ \E i \in 1..Len(call[c].tasks) : FragmentFailed(c, i)) =>
      /\ call[c].outcome = "returned"
      /\ \A i \in 1..Len(call[c].tasks) :
           IF FragmentFailed(c, i) THEN call[c].results[i] = <<>>
           ELSE \A n \in 1..Len(call[c].replies[i].items) :
                  ValidCandidate(call[c].replies[i].items[n]) =>
                    Persisted(call[c].replies[i].items[n],
                              Basename(call[c].filepath))

----------------------------------------------------------------------------
(* C9 *)

RECURSIVE Flatten(_)
Flatten(lists) ==
  IF lists = <<>> THEN <<>> ELSE Head(lists) \o Flatten(Tail(lists))

\* C9: the rows stored when save_transactions returns are those that saving
\* the fragments' results in task order stores, whatever the order in which
\* the fragment calls completed.
C9_OrderIndependent ==
  \A c \in Callers :
    (call[c].op = "process_file" /\ pc[c] = "log") =>
      RowSet(transactions) =
        RowSet(SaveTransactions(call[c].pre_rows, Flatten(call[c].results),
                                Basename(call[c].filepath),
                                call[c].detected_method).rows)

----------------------------------------------------------------------------
(* SaveSpec: process_file on one-fragment files of one name, with the Oracle
   drawing from every kind of candidate; no rule is taught *)

MaxSaveOps == 2

SavePaths == {P_redo, P_old, P_none}

SaveReplies ==
  {Reply("list", <<t>>) :
     t \in {C_star, C_refund, C_aws, C_noid, C_noid2, C_neg, C_example, C_zero,
            C_zerostr, C_noamt, C_slash, C_long, C_month, C_nodate, C_nan,
            C_words, C_badpm, C_nullm}}
  \cup {Reply("list", <<C_noid, C_noid2>>), Reply("list", <<C_star, C_nullm>>),
        Reply("wrapped", <<C_neg, C_example>>), Reply("single", <<C_star>>),
        Reply("scalar", <<>>), Reply("raise", <<>>)}

SaveNext ==
  \/ \E p \in SavePaths : ProcessFileNotFound(1, p, FileAt(p), MaxSaveOps)
  \/ \E p \in SavePaths : ProcessFileSkip(1, p, FileAt(p), MaxSaveOps)
  \/ \E p \in SavePaths : ProcessFileSegment(1, p, FileAt(p), NoAnswer, MaxSaveOps)
  \/ Step(1, SaveReplies)

SaveSpec == Init /\ [][SaveNext]_vars

----------------------------------------------------------------------------
(* C3 *)

\* C3: every stored transaction has an amount that is a number >= 0.
C3_AmountNonNegative ==
  \A k \in 1..Len(transactions) :
    transactions[k].amount.t = "num" /\ transactions[k].amount.v >= 0

----------------------------------------------------------------------------
(* C4 *)

\* A candidate with no transaction_id that save_transactions inserts or
\* finds stored.
SyntheticCandidate(t) ==
  /\ ~Truthy(t.transaction_id)
  /\ ~SkippedBySave(t)
  /\ CleanAmount(t.amount).ok

\* The same date, merchant and normalized amount.
SameContent(t, u) ==
  /\ t.date = u.date
  /\ t.merchant = u.merchant
  /\ CleanAmount(t.amount) = CleanAmount(u.amount)

IsSyntheticId(id) == Len(id) >= 4 /\ SubSeq(id, 1, 4) = <<"G","E","N","-">>

\* The stored rows of source file filename that have a pseudo-ID and the
\* date, merchant and normalized amount of candidate t.
RowsOfContent(t, filename) ==
  {k \in 1..Len(transactions) :
     /\ transactions[k].source_file = filename
     /\ IsSyntheticId(transactions[k].transaction_id)
     /\ transactions[k].date = SqlText(t.date)
     /\ transactions[k].merchant = SqlText(t.merchant)
     /\ transactions[k].amount = SqlReal(CleanAmount(t.amount))}

\* C4: two candidates without transaction_id that agree on date, merchant
\* and normalized amount get the same pseudo-ID, and once save_transactions
\* has returned the source file holds one row for them, not two; a candidate
\* saved again under the same source file adds none.
C4_SyntheticIdDedup ==
  \A c \in Callers :
    Saved(c) =>
      \A i, j \in 1..Len(call[c].all_transactions) :
        LET t == call[c].all_transactions[i]
            u == call[c].all_transactions[j]
        IN  (SyntheticCandidate(t) /\ SyntheticCandidate(u) /\ SameContent(t, u)) =>
              /\ SyntheticId(t, CleanAmount(t.amount)) =
                   SyntheticId(u, CleanAmount(u.amount))
              /\ Cardinality(RowsOfContent(t, Basename(call[c].filepath))) = 1

\* A call saved two such candidates that differ in how the amount is
\* written and in txn_type, and one row is stored for them.
C4_Witness ==
  \E c \in Callers :
    /\ Saved(c)
    /\ \E i, j \in 1..Len(call[c].all_transactions) :
         LET t == call[c].all_transactions[i]
             u == call[c].all_transactions[j]
         IN  /\ i < j
             /\ SyntheticCandidate(t) /\ SyntheticCandidate(u) /\ SameContent(t, u)
             /\ t.amount # u.amount
             /\ Cardinality(RowsOfContent(t, Basename(call[c].filepath))) = 1
    /\ call[c].count = 1

\* A later call on other bytes of the same name saved the same candidate
\* again and inserted nothing.
C4_WitnessRetry ==
  \E c \in Callers :
    /\ Saved(c)
    /\ call[c].pre_rows # <<>>
    /\ call[c].count = 0
    /\ \E i \in 1..Len(call[c].all_transactions) :
         SyntheticCandidate(call[c].all_transactions[i])

----------------------------------------------------------------------------
(* C8 *)

PLACEHOLDER == <<"E","X","A","M","P","L","E","_","M","E","R","C","H","A","N","T","_","O","N","L","Y">>

\* A date of exactly the form YYYY-MM-DD with a month and a day of the
\* calendar.
IsIsoDate(s) ==
  /\ Len(s) = 10
  /\ ReMatchDate(s)
  /\ DigitsVal(SubSeq(s, 6, 7)) \in 1..12
  /\ DigitsVal(SubSeq(s, 9, 10)) \in 1..31

\* C8: no stored transaction has the placeholder merchant, an amount of
\* zero, or a date that is not an ISO YYYY-MM-DD date.
C8_FilteredNeverStored ==
  \A k \in 1..Len(transactions) :
    /\ transactions[k].merchant # PLACEHOLDER
    /\ transactions[k].amount # Num(0)
    /\ IsIsoDate(transactions[k].date)

----------------------------------------------------------------------------
(* RulesSpec: one caller ingests a one-fragment file and teaches rules whose
   keywords are contained in one another *)

MaxRuleOps == 3

RulePaths == {P_redo}

RuleReplies == {Reply("list", <<C_aws, C_star>>), Reply("list", <<C_noid>>)}

RuleKeywords == {K_amazon, K_amazon_aws, K_starbucks}

RuleCategories == {"Shopping", "Cloud"}

RulesNext ==
  \/ \E p \in RulePaths : ProcessFileSkip(1, p, FileAt(p), MaxRuleOps)
  \/ \E p \in RulePaths : ProcessFileSegment(1, p, FileAt(p), NoAnswer, MaxRuleOps)
  \/ \E k \in RuleKeywords : \E g \in RuleCategories : AddRule(1, k, g, MaxRuleOps)
  \/ Step(1, RuleReplies)

RulesSpec == Init /\ [][RulesNext]_vars

----------------------------------------------------------------------------
(* C5 *)

\* A call whose sweep has written its updates.
Swept(c) == pc[c] = "done" /\ call[c].outcome = "returned"

\* The rules of category_map whose keyword is contained in the lowercased
\* merchant.
MatchingRules(merchant) ==
  {k \in 1..Len(category_map) :
     Contains(Lower(merchant), category_map[k].keyword)}

\* C5: after a sweep, a transaction of its scope whose merchant contains the
\* keywords of more than one rule has the category of a rule whose keyword
\* is the longest of them.
C5_LongestKeywordWins ==
  \A c \in Callers :
    Swept(c) =>
      \A i \in DOMAIN call[c].fetched :
        LET M == MatchingRules(transactions[i].merchant)
        IN  Cardinality(M) > 1 =>
              \E k \in M :
                /\ \A j \in M :
                     Len(category_map[k].keyword) >= Len(category_map[j].keyword)
                /\ transactions[i].category = category_map[k].category

\* A sweep reached a transaction that two rules of different length and
\* category match, the shorter one first in the table.
C5_Witness ==
  \E c \in Callers :
    /\ Swept(c)
    /\ \E i \in DOMAIN call[c].fetched :
         \E k, j \in MatchingRules(transactions[i].merchant) :
           /\ k < j
           /\ Len(category_map[k].keyword) < Len(category_map[j].keyword)
           /\ category_map[k].category # category_map[j].category
           /\ transactions[i].category = category_map[j].category

----------------------------------------------------------------------------
(* TeachSpec: one caller ingests a one-fragment file and teaches rules, some
   with the empty keyword or with a LIKE wildcard as keyword *)

MaxTeachOps == 4

K_empty      == <<>>
K_underscore == <<"_">>

TeachPaths == {P_redo}

TeachReplies == {Reply("list", <<C_star>>), Reply("list", <<C_aws>>)}

TeachKeywords == {K_empty, K_underscore, K_starbucks}

TeachCategories == {"Misc", "Other"}

TeachNext ==
  \/ \E p \in TeachPaths : ProcessFileSkip(1, p, FileAt(p), MaxTeachOps)
  \/ \E p \in TeachPaths : ProcessFileSegment(1, p, FileAt(p), NoAnswer, MaxTeachOps)
  \/ \E k \in TeachKeywords : \E g \in TeachCategories : AddRule(1, k, g, MaxTeachOps)
  \/ Step(1, TeachReplies)

TeachSpec == Init /\ [][TeachNext]_vars

----------------------------------------------------------------------------
(* C6 *)

\* C6: when teach(keyword, category) has returned, every transaction whose
\* merchant does not contain the keyword, ignoring case, has the category it
\* had when the call began.
C6_TeachTouchesOnlyMatches ==
  \A c \in Callers :
    (Swept(c) /\ call[c].op = "teach") =>
      \A i \in 1..Len(call[c].pre_rows) :
        ~Contains(Lower(call[c].pre_rows[i].merchant), Lower(call[c].target_keyword))
          => transactions[i].category = call[c].pre_rows[i].category

----------------------------------------------------------------------------
(* ConcSpec: two callers run process_file at the same time on two files of
   the same bytes and different names *)

MaxConcOps == 2

ConcPaths == {P_one, P_dup}

ConcReplies == {Reply("list", <<C_star>>), Reply("raise", <<>>)}

ConcNext ==
  \E c \in Callers :
    \/ \E p \in ConcPaths : ProcessFileSkip(c, p, FileAt(p), MaxConcOps)
    \/ \E p \in ConcPaths : ProcessFileSegment(c, p, FileAt(p), NoAnswer, MaxConcOps)
    \/ Step(c, ConcReplies)

ConcSpec == Init /\ [][ConcNext]_vars

----------------------------------------------------------------------------
(* C10 *)

\* C10: no two stored rows are the same transaction: none share the
\* transaction_id, date, merchant and amount.
C10_NoTransactionTwice ==
  \A i, j \in 1..Len(transactions) :
    (/\ transactions[i].transaction_id = transactions[j].transaction_id
     /\ transactions[i].date = transactions[j].date
     /\ transactions[i].merchant = transactions[j].merchant
     /\ transactions[i].amount = transactions[j].amount) => i = j

----------------------------------------------------------------------------
(* TeachConcSpec: caller 1 ingests a one-fragment file, then the two callers
   teach at the same time *)

MaxTeachConcOps == 3

TeachConcPaths == {P_redo}

TeachConcReplies == {Reply("list", <<C_aws>>), Reply("list", <<C_noid, C_star>>)}

TeachConcKeywords == {K_amazon, K_amazon_aws}

TeachConcCategories == {"Shopping", "Cloud"}

\* The steps of run_updates.
SweepStep(c) == FetchRules(c) \/ FetchRows(c) \/ WriteUpdates(c) \/ Return(c)

TeachConcNext ==
  \/ \E p \in TeachConcPaths :
       ProcessFileSegment(1, p, FileAt(p), NoAnswer, MaxTeachConcOps)
  \/ \E i \in 1..MAX_WORKERS : WorkerStart(1, i)
  \/ \E i \in 1..MAX_WORKERS : \E reply \in TeachConcReplies : WorkerFinish(1, i, reply)
  \/ Save(1)
  \/ LogFileProcessed(1)
  \/ \E c \in Callers : \E k \in TeachConcKeywords : \E g \in TeachConcCategories :
       /\ \A d \in Callers : call[d].op # "process_file"
       /\ AddRule(c, k, g, MaxTeachConcOps)
  \/ \E c \in Callers : SweepStep(c)

TeachConcSpec == Init /\ [][TeachConcNext]_vars

----------------------------------------------------------------------------
(* C11 *)

\* teach(keyword, category) run alone on a store: the rule is written, then
\* the scoped sweep reads the rules and the rows and writes the categories.
TeachAlone(store, keyword, category) ==
  LET map == InsertOrReplaceRule(store.map, keyword, category)
      scope == SweepScope(store.rows, keyword)
      fetched == [i \in scope |-> store.rows[i].merchant]
  IN  [rows |-> ApplyUpdates(store.rows, ComputeUpdates(SortRules(map), fetched)),
       map |-> map]

\* The store after the teach call of caller a and then that of caller b,
\* from the store the earlier of the two started on.
TeachSerial(a, b) ==
  LET first == IF call[a].seq < call[b].seq THEN a ELSE b
      store == [rows |-> call[first].pre_rows, map |-> call[first].pre_map]
  IN  TeachAlone(TeachAlone(store, call[a].target_keyword, call[a].category),
                 call[b].target_keyword, call[b].category)

RuleSet(map) == {map[k] : k \in 1..Len(map)}

\* Both callers are at the end of a teach call, neither has returned, and no
\* other call began after the earlier of the two.
BothTaught ==
  /\ \A c \in Callers : Swept(c) /\ call[c].op = "teach"
  /\ {call[c].seq : c \in Callers} = {nops - 2, nops - 1}

\* C11: when two teach calls that ran at the same time have both finished,
\* the rules and the rows are those of one call run after the other, in one
\* of the two orders.
C11_TeachSerializable ==
  BothTaught =>
    \E a, b \in Callers :
      /\ a # b
      /\ RuleSet(TeachSerial(a, b).map) = RuleSet(category_map)
      /\ TeachSerial(a, b).rows = transactions

----------------------------------------------------------------------------
(* C12 *)

\* The call of caller c has come back from log_file_processed.
Logged(c) ==
  /\ call[c].op = "process_file"
  /\ \/ pc[c] \in {"fetch_rules", "fetch_rows", "write_updates"}
     \/ pc[c] = "done" /\ call[c].outcome = "returned"

\* The processed-file record of c's call.
RecordOf(c) ==
  [file_hash |-> call[c].f_hash, filename |-> Basename(call[c].filepath)]

\* The transaction_ids of rows, in id order.
IdsOf(rows) == [i \in 1..Len(rows) |-> rows[i].transaction_id]

\* C12: in a process_file call that was not skipped, the record of the
\* digest is in processed_files only once save_transactions of the call has
\* committed its rows; at every earlier point of the call, and when the call
\* ended on an exception or with no data, processed_files is as it was when
\* the call began and is_file_processed(digest) is false, so that a later
\* call on the content is not skipped.
C12_LogAfterSave ==
  \A c \in Callers :
    (call[c].op = "process_file" /\ call[c].outcome \notin {"skipped", "not_found"}) =>
      IF Logged(c)
      THEN /\ processed_files = call[c].pre_files \cup {RecordOf(c)}
           /\ IdsOf(transactions) =
                IdsOf(SaveTransactions(call[c].pre_rows, call[c].all_transactions,
                                       Basename(call[c].filepath),
                                       call[c].detected_method).rows)
      ELSE /\ processed_files = call[c].pre_files
           /\ ~IsFileProcessed(call[c].f_hash)

\* A call on content that an earlier call was given and did not record has
\* saved rows and recorded the digest.
C12_Witness ==
  \E c \in Callers :
    /\ Logged(c)
    /\ call[c].repeat
    /\ call[c].count > 0
    /\ RecordOf(c) \in processed_files

----------------------------------------------------------------------------
(* HangSpec: process_file with an Oracle that may never answer a fragment
   call; every step of the program that can be taken is taken in the end *)

MaxHangOps == 2

HangPaths == {P_stmt, P_redo}

HangReplies == {Reply("raise", <<>>), Reply("list", <<C_star>>), Reply("list", <<C_aws>>)}

HangNext ==
  \/ \E p \in HangPaths : ProcessFileSkip(1, p, FileAt(p), MaxHangOps)
  \/ \E p \in HangPaths : ProcessFileSegment(1, p, FileAt(p), NoAnswer, MaxHangOps)
  \/ \E i \in 1..MAX_WORKERS : OracleHangs(1, i)
  \/ Step(1, HangReplies)

HangSpec == Init /\ [][HangNext]_vars /\ WF_vars(Step(1, HangReplies))

----------------------------------------------------------------------------
(* C13 *)

\* C13: a process_file call (of caller 1, the caller of HangSpec) that has
\* submitted its fragments to the pool reaches the end of the call,
\* save_transactions included, also when an Oracle call never answers.
C13_PoolNeverStuck == (pc[1] = "pool") ~> (pc[1] = "done")

----------------------------------------------------------------------------
(* C14 *)

\* The rule a teach call of caller c writes.
RuleOf(c) ==
  [keyword |-> Lower(call[c].target_keyword), category |-> call[c].category]

\* C14: at every point of a teach call from the return of the rule write
\* on, the rule is in category_map, whether or not the sweep goes on; no
\* category has changed before the sweep reads the rules, and the rules the
\* sweep reads hold the new rule.
C14_WriteThenPropagate ==
  \A c \in Callers :
    call[c].op = "teach" =>
      /\ RuleOf(c) \in RuleSet(category_map)
      /\ pc[c] = "fetch_rules" => transactions = call[c].pre_rows
      /\ pc[c] \in {"fetch_rows", "write_updates", "done"} =>
           RuleOf(c) \in RuleSet(call[c].rules)

\* A teach call replaced a rule and its sweep changed a category.
C14_Witness ==
  \E c \in Callers :
    /\ call[c].op = "teach"
    /\ Swept(c)
    /\ transactions # call[c].pre_rows
    /\ \E k \in 1..Len(call[c].pre_map) :
         /\ call[c].pre_map[k].keyword = RuleOf(c).keyword
         /\ call[c].pre_map[k].category # RuleOf(c).category

----------------------------------------------------------------------------
(* KeywordSpec: one caller teaches rules whose keywords differ in letter
   case only, or not at all *)

MaxKeywordOps == 3

K_Uber == <<"U","b","e","r">>
K_UBER == <<"U","B","E","R">>

KeywordKeywords == {K_Uber, K_UBER, K_amazon}

KeywordCategories == {"Travel", "Taxi"}

KeywordNext ==
  \/ \E k \in KeywordKeywords : \E g \in KeywordCategories :
       AddRule(1, k, g, MaxKeywordOps)
  \/ SweepStep(1)

KeywordSpec == Init /\ [][KeywordNext]_vars

----------------------------------------------------------------------------
(* C15 *)

\* C15: category_map holds at most one rule per keyword and every stored
\* keyword is lowercase; during and after a teach call the rule of the
\* call's lowercased keyword has the call's category, and every other
\* keyword has the rule it had before the call.
C15_OneRulePerKeyword ==
  /\ \A i, j \in 1..Len(category_map) :
       category_map[i].keyword = category_map[j].keyword => i = j
  /\ \A i \in 1..Len(category_map) :
       category_map[i].keyword = Lower(category_map[i].keyword)
  /\ \A c \in Callers :
       call[c].op = "teach" =>
         RuleSet(category_map) =
           {r \in RuleSet(call[c].pre_map) : r.keyword # RuleOf(c).keyword}
             \cup {RuleOf(c)}

\* teach('UBER', ...) found a rule uber with another category and left the
\* one rule uber with its own, next to a rule of another keyword.
C15_Witness ==
  \E c \in Callers :
    /\ call[c].op = "teach"
    /\ call[c].target_keyword = K_UBER
    /\ Len(category_map) = 2
    /\ \E k \in 1..Len(call[c].pre_map) :
         /\ call[c].pre_map[k].keyword = Lower(K_Uber)
         /\ call[c].pre_map[k].category # call[c].category
    /\ \E k \in 1..Len(category_map) :
         category_map[k] = [keyword |-> Lower(K_Uber), category |-> call[c].category]

----------------------------------------------------------------------------
(* C16 *)

\* A step keeps every stored row, with every field but category as it was,
\* and changes a category only when it is the batched UPDATE of run_updates.
RowsKept ==
  /\ Len(transactions') >= Len(transactions)
  /\ \A i \in 1..Len(transactions) :
       /\ [transactions'[i] EXCEPT !.category = transactions[i].category]
            = transactions[i]
       /\ transactions'[i].category # transactions[i].category =>
            \E c \in Callers : pc[c] = "write_updates" /\ pc'[c] = "done"

\* C16: over process_file and teach calls no stored transaction is deleted,
\* its transaction_id, date, merchant, amount, txn_type, payment_method,
\* notes and source_file stay as inserted, and its category changes only in
\* the write of run_updates.
C16_RowsImmutable == [][RowsKept]_vars

\* A teach call changed the category of a row stored before it, and a
\* process_file call before it was offered the key of a stored row again.
C16_Witness ==
  \E c \in Callers :
    /\ call[c].op = "teach"
    /\ Swept(c)
    /\ Len(call[c].pre_rows) >= 2
    /\ \E i \in 1..Len(call[c].pre_rows) :
         transactions[i].category # call[c].pre_rows[i].category

----------------------------------------------------------------------------
(* SweepSpec: one caller ingests a one-fragment file, teaches rules and runs
   a sweep a second time *)

MaxSweepOps == 4

SweepPaths == {P_redo}

SweepReplies == {Reply("list", <<C_aws, C_star>>)}

SweepKeywords == {K_amazon, K_amazon_aws, K_underscore, K_empty}

SweepCategories == {"Shopping", "Cloud"}

SweepNext ==
  \/ \E p \in SweepPaths : ProcessFileSegment(1, p, FileAt(p), NoAnswer, MaxSweepOps)
  \/ \E k \in SweepKeywords : \E g \in SweepCategories : AddRule(1, k, g, MaxSweepOps)
  \/ RunUpdatesAgain(1, MaxSweepOps)
  \/ Step(1, SweepReplies)

SweepSpec == Init /\ [][SweepNext]_vars

----------------------------------------------------------------------------
(* C17 *)

\* C17: a sweep run again with the scope of the sweep before it, no rule
\* and no transaction changed in between, leaves every transaction as the
\* first run left it.
C17_SweepIdempotent ==
  \A c \in Callers :
    (call[c].op = "run_updates" /\ Swept(c)) => transactions = call[c].pre_rows

\* A second run of a keyword sweep wrote categories.
C17_Witness ==
  \E c \in Callers :
    /\ call[c].op = "run_updates"
    /\ Swept(c)
    /\ call[c].target_keyword # <<>>
    /\ DOMAIN call[c].updates # {}

\* A second run of the sweep over the uncategorized rows found a row still
\* uncategorized next to one the first run categorized.
C17_WitnessGlobal ==
  \E c \in Callers :
    /\ call[c].op = "run_updates"
    /\ Swept(c)
    /\ call[c].target_keyword = <<>>
    /\ DOMAIN call[c].fetched # {}
    /\ \E i \in 1..Len(transactions) : transactions[i].category # Uncategorized

----------------------------------------------------------------------------
(* PaySpec: process_file on one-fragment files whose name gives the default
   method UPI or none, the Oracle supplying payment_method in every case *)

MaxPayOps == 2

PayPaths == {P_upi, P_redo}

S_cheque == <<"C","h","e","q","u","e">>

\* The payment_method values the Oracle supplies: each display string as it
\* is, in lowercase and in uppercase, a string that is none of them, the
\* empty string, null, and no value.
PayValues ==
  {Str(PaymentMethod[i]) : i \in 1..Len(PaymentMethod)}
  \cup {Str(Lower(PaymentMethod[i])) : i \in 1..Len(PaymentMethod)}
  \cup {Str(Upper(PaymentMethod[i])) : i \in 1..Len(PaymentMethod)}
  \cup {Str(S_cheque), Str(<<>>), Null, Absent}

PayReplies ==
  {Reply("list", <<Candidate(T_R1, Str(D_iso), Str(M_star), Num(250), Absent, v, Absent)>>) :
     v \in PayValues}

PayNext ==
  \/ \E p \in PayPaths : ProcessFileSkip(1, p, FileAt(p), MaxPayOps)
  \/ \E p \in PayPaths : ProcessFileSegment(1, p, FileAt(p), NoAnswer, MaxPayOps)
  \/ Step(1, PayReplies)

PaySpec == Init /\ [][PayNext]_vars

----------------------------------------------------------------------------
(* C18 *)

\* The enum members whose display string is raw, ignoring letter case.
MembersNamed(raw) ==
  {i \in 1..Len(PaymentMethod) :
     raw.t = "str" /\ Lower(PaymentMethod[i]) = Lower(raw.v)}

\* The payment_method the contract gives candidate t.
ContractMethod(t, default_method) ==
  IF MembersNamed(t.payment_method) = {} THEN default_method
  ELSE PaymentMethod[CHOOSE i \in MembersNamed(t.payment_method) : TRUE]

\* C18: the row save_transactions inserts for a candidate has the enum
\* member whose display string is the candidate's payment_method ignoring
\* case, for each of the six display strings, and default_method when the
\* candidate has no value or one that names no member.
C18_PaymentMethodResolved ==
  \A c \in Callers :
    (Saved(c) /\ call[c].count = Len(call[c].all_transactions)) =>
      \A i \in 1..Len(call[c].all_transactions) :
        LET t == call[c].all_transactions[i] IN
        \A k \in 1..Len(transactions) :
          (/\ transactions[k].transaction_id = ResolveTxId(t, CleanAmount(t.amount))
           /\ transactions[k].source_file = Basename(call[c].filepath)) =>
             transactions[k].payment_method =
               ContractMethod(t, call[c].detected_method)

----------------------------------------------------------------------------
(* InferSpec: process_file on files whose header text and name carry the
   signals of the tiers, with an Oracle that names an instrument, names
   none, or fails *)

MaxInferOps == 2

InferPaths == {P_card, P_blank, P_bank, P_upi, P_redo}

InferAnswers ==
  {NoAnswer, RaiseAnswer,
   TextAnswer(<<"D","e","b","i","t"," ","C","a","r","d">>),
   TextAnswer(<<"\"","u","p","i","\"">>),
   TextAnswer(<<"V","i","s","a">>)}

InferReplies == {Reply("list", <<C_star>>), Reply("raise", <<>>)}

InferNext ==
  \/ \E p \in InferPaths : ProcessFileSkip(1, p, FileAt(p), MaxInferOps)
  \/ \E p \in InferPaths : \E a \in InferAnswers :
       ProcessFileSegment(1, p, FileAt(p), a, MaxInferOps)
  \/ Step(1, InferReplies)

InferSpec == Init /\ [][InferNext]_vars

----------------------------------------------------------------------------
(* C19 *)

\* The instruments the Oracle's answer names: none when the call failed.
NamedInstruments(answer) ==
  IF answer.kind # "text" THEN {}
  ELSE {i \in 1..Len(ValidTypes) :
          Contains(Lower(answer.text), Lower(ValidTypes[i]))}

\* The three tiers in strict order: the instrument the Oracle names; else
\* the keywords of the header text; else the signals of the filename; else
\* UNKNOWN.
TieredMethod(filepath, first_page_text, answer) ==
  LET named == NamedInstruments(answer)
      text_lower == Lower(first_page_text)
      fname == Lower(Basename(filepath))
  IN  IF first_page_text # <<>> /\ named # {}
        THEN ValidTypes[CHOOSE i \in named : \A j \in named : i <= j]
      ELSE IF Contains(text_lower, S_credit_card) THEN CREDIT_CARD
      ELSE IF Contains(text_lower, S_upi) THEN UPI
      ELSE IF Contains(text_lower, S_savings)
              \/ Contains(text_lower, S_account_statement) THEN BANK_TRANSFER
      ELSE IF Contains(fname, S_credit) /\ Contains(fname, S_card) THEN CREDIT_CARD
      ELSE IF Contains(fname, S_debit) /\ Contains(fname, S_card) THEN DEBIT_CARD
      ELSE IF Contains(fname, S_upi) THEN UPI
      ELSE IF Contains(fname, S_bank) THEN BANK_TRANSFER
      ELSE UNKNOWN

\* C19: the method process_file detects for a CSV or for a PDF with a page
\* is the Oracle's instrument when its answer names one; the header-text
\* keywords' when the Oracle failed or named none; the filename's when the
\* text has no keyword; UNKNOWN when no tier matches.
C19_TiersInOrder ==
  \A c \in Callers :
    LET ext == Extension(call[c].filepath)
        file == FileAt(call[c].filepath)
    IN  (/\ call[c].op = "process_file"
         /\ call[c].outcome \notin {"skipped", "not_found"}
         /\ ext = S_csv \/ (ext = S_pdf /\ file.pages # <<>>)) =>
          call[c].detected_method =
            TieredMethod(call[c].filepath, FirstPageText(ext, file), call[c].answer)

----------------------------------------------------------------------------
(* C20 *)

\* C20: when save_transactions has returned, every valid candidate of every
\* fragment the Oracle answered with well-formed content is in the store,
\* whatever the other candidates of its fragment lack: a candidate that
\* fails validation takes no other candidate with it.
C20_DroppedPerCandidate ==
  \A c \in Callers :
    Saved(c) =>
      \A i \in 1..Len(call[c].tasks) :
        ~FragmentFailed(c, i) =>
          \A n \in 1..Len(ParsedTransactions(call[c].replies[i])) :
            LET t == ParsedTransactions(call[c].replies[i])[n] IN
            ValidCandidate(t) => Persisted(t, Basename(call[c].filepath))

----------------------------------------------------------------------------
(* C21 *)

\* C21: a process_file call that ended on a missing file or on a CSV that
\* cannot be read has inserted no transaction, written no processed-file
\* record, changed no category and no rule, and made no Oracle call.
C21_InputErrorNoEffect ==
  \A c \in Callers :
    (call[c].op = "process_file" /\ call[c].outcome \in {"not_found", "csv_error"}) =>
      /\ pc[c] = "done"
      /\ transactions = call[c].pre_rows
      /\ processed_files = call[c].pre_files
      /\ category_map = call[c].pre_map
      /\ call[c].oracle_calls = 0

\* A call on a CSV that cannot be read ended with transactions and a
\* processed-file record of an earlier call in the store.
C21_Witness ==
  \E c \in Callers :
    /\ call[c].outcome = "csv_error"
    /\ transactions # <<>>
    /\ processed_files # {}

\* A call on a missing file ended with transactions of an earlier call in
\* the store.
C21_WitnessMissing ==
  \E c \in Callers :
    /\ call[c].outcome = "not_found"
    /\ transactions # <<>>

----------------------------------------------------------------------------
(* PoolSpec: process_file on files of two and three fragments, the workers
   of the pool finishing in any order *)

MaxPoolOps == 2

PoolPaths == {P_many, P_card}

PoolReplies ==
  {Reply("raise", <<>>), Reply("list", <<C_star>>),
   Reply("wrapped", <<C_aws, C_noid>>)}

PoolAnswers == {NoAnswer, TextAnswer(<<"C","r","e","d","i","t"," ","C","a","r","d">>)}

PoolNext ==
  \/ \E p \in PoolPaths : ProcessFileSkip(1, p, FileAt(p), MaxPoolOps)
  \/ \E p \in PoolPaths : \E a \in PoolAnswers :
       ProcessFileSegment(1, p, FileAt(p), a, MaxPoolOps)
  \/ Step(1, PoolReplies)

PoolSpec == Init /\ [][PoolNext]_vars

----------------------------------------------------------------------------
(* C22 *)

\* C22: at every moment of a process_file call, whatever the number of its
\* fragments, at most MAX_WORKERS Oracle extraction calls are under way.
C22_AtMostMaxWorkersInFlight ==
  \A c \in Callers : Cardinality(Running(c)) <= MAX_WORKERS

\* MAX_WORKERS extraction calls are under way while a further fragment of
\* the same call is still queued.
C22_Witness ==
  \E c \in Callers :
    /\ pc[c] = "pool"
    /\ Len(call[c].tasks) > MAX_WORKERS
    /\ Cardinality(Running(c)) = MAX_WORKERS
    /\ \E i \in 1..Len(call[c].futures) : call[c].futures[i] = "pending"

----------------------------------------------------------------------------
(* C23 *)

\* The number of times x occurs in seq.
Occurrences(seq, x) == Cardinality({i \in 1..Len(seq) : seq[i] = x})

\* seq and other hold the same elements the same number of times.
SameMultiset(seq, other) ==
  /\ Len(seq) = Len(other)
  /\ \A i \in 1..Len(seq) : Occurrences(seq, seq[i]) = Occurrences(other, seq[i])

\* The pool of the call has been left: every future is done and
\* save_transactions has been called.
PoolLeft(c) ==
  /\ call[c].op = "process_file"
  /\ call[c].tasks # <<>>
  /\ pc[c] # "pool"

\* C23: when the pool has been left, whatever the order in which the workers
\* finished, the Oracle has been asked to extract exactly once per fragment
\* and the list handed to save_transactions holds the candidates of all
\* fragments' results, each as many times as the results hold it.
C23_UnionOfFragmentResults ==
  \A c \in Callers :
    PoolLeft(c) =>
      /\ call[c].oracle_calls =
           Len(call[c].tasks) + (IF call[c].answer # NoAnswer THEN 1 ELSE 0)
      /\ \A i \in 1..Len(call[c].futures) : call[c].futures[i] = "done"
      /\ SameMultiset(call[c].all_transactions, Flatten(call[c].results))

\* The pool of a call of three fragments has been left, the workers having
\* finished in another order than the fragments were submitted in, and two
\* fragments have returned the same candidate.
C23_Witness ==
  \E c \in Callers :
    /\ PoolLeft(c)
    /\ Len(call[c].tasks) > MAX_WORKERS
    /\ call[c].all_transactions # Flatten(call[c].results)
    /\ \E i, j \in 1..Len(call[c].results) :
         i # j /\ call[c].results[i] # <<>> /\ call[c].results[i] = call[c].results[j]

----------------------------------------------------------------------------
(* IngestSpec: process_file calls on files of different names, between teach
   calls that give a keyword, the empty one among them, a category and then
   another *)

MaxIngestOps == 4

IngestPaths == {P_redo, P_upi}

IngestReplies == {Reply("list", <<C_aws, C_star>>)}

IngestKeywords == {K_empty, K_amazon}

IngestCategories == {"Shopping", "Cloud"}

IngestNext ==
  \/ \E p \in IngestPaths : ProcessFileSkip(1, p, FileAt(p), MaxIngestOps)
  \/ \E p \in IngestPaths :
       ProcessFileSegment(1, p, FileAt(p), NoAnswer, MaxIngestOps)
  \/ \E k \in IngestKeywords : \E g \in IngestCategories :
       AddRule(1, k, g, MaxIngestOps)
  \/ Step(1, IngestReplies)

IngestSpec == Init /\ [][IngestNext]_vars

----------------------------------------------------------------------------
(* C24 *)

\* A step of the sweep of a process_file call changes the category of a
\* stored transaction only when that category was 'Uncategorized' and a rule
\* keyword is contained in the lowercased merchant.
IngestSweepChange ==
  \A c \in Callers :
    (call[c].op = "process_file"
       /\ pc[c] \in {"fetch_rules", "fetch_rows", "write_updates"}) =>
      /\ Len(transactions') = Len(transactions)
      /\ \A i \in 1..Len(transactions) :
           transactions'[i].category # transactions[i].category =>
             /\ transactions[i].category = Uncategorized
             /\ MatchingRules(transactions[i].merchant) # {}

\* C24: the sweep process_file runs after ingestion changes the category
\* only of transactions that were 'Uncategorized' before it and whose
\* lowercased merchant contains a rule keyword; a transaction already
\* categorized, or matching no rule, keeps its category.
C24_SweepOnlyUncategorizedMatches == [][IngestSweepChange]_vars

\* The sweep of a process_file call has categorized a row the call
\* inserted, and has left alone a row stored before the call whose category
\* is that of none of the rules its merchant matches.
C24_Witness ==
  \E c \in Callers :
    /\ call[c].op = "process_file"
    /\ Swept(c)
    /\ \E j \in 1..Len(transactions) :
         /\ j > Len(call[c].pre_rows)
         /\ transactions[j].category # Uncategorized
    /\ \E i \in 1..Len(call[c].pre_rows) :
         /\ transactions[i].category # Uncategorized
         /\ MatchingRules(transactions[i].merchant) # {}
         /\ \A k \in MatchingRules(transactions[i].merchant) :
              category_map[k].category # transactions[i].category

----------------------------------------------------------------------------
(* SegmentSpec: process_file cuts PDF files whose pages hold tables of up to
   MaxRows rows, and CSV files of up to MaxCsvChunks full chunks and a
   record *)

MaxSegmentOps == 1

MaxRows == 3

MaxBatchSize == 3

MaxCsvChunks == 2

OtherRow == <<Str(<<"0","2","/","0","2","/","2","0","2","5">>), Str(<<"A","m","a","z","o","n">>), Str(<<"1","0","0">>)>>

SeqsUpTo(S, n) == UNION {[1..k -> S] : k \in 0..n}

\* Tables with header, data, junk and footer rows in any order.
SegTables == SeqsUpTo({HeaderRow, DataRow, OtherRow, JunkRow, FooterRow}, MaxRows)

\* Shorter tables, for the files that hold two of them.
SegSmallTables == SeqsUpTo({DataRow, OtherRow, JunkRow}, MaxRows - 1)

\* A page with tables and no text.
TablePage(tables) == [text |-> <<>>, tables |-> tables]

\* PDF files of one table, of two tables on a page, and of two pages with a
\* table each.
SegPdfFiles ==
  {PdfFile("B11", <<TablePage(<<t>>)>>) : t \in SegTables}
    \cup {PdfFile("B11", <<TablePage(<<t, u>>)>>) : t \in SegSmallTables, u \in SegSmallTables}
    \cup {PdfFile("B11", <<TablePage(<<t>>), TablePage(<<u>>)>>) :
            t \in SegSmallTables, u \in SegSmallTables}

SegCsvFiles ==
  {CsvFile("B12", n) : n \in 0..(MaxCsvChunks * CHUNK_SIZE_LINES + 1)}

SegmentNext ==
  \/ \E f \in SegPdfFiles : ProcessFileSegment(1, P_card, f, NoAnswer, MaxSegmentOps)
  \/ \E f \in SegCsvFiles : ProcessFileSegment(1, P_stmt, f, NoAnswer, MaxSegmentOps)

SegmentSpec == Init /\ [][SegmentNext]_vars

----------------------------------------------------------------------------
(* C25 *)

\* The rows of a table that pass the three filters, in the table's order.
KeptRows(table) == SelectSeq(table, KeepRow)

\* The number of fragments n rows make at a batch size of size.
FragmentCount(n, size) == (n + size - 1) \div size

\* The number of fragments the tables before table t make.
RECURSIVE FragmentsBefore(_, _, _)
FragmentsBefore(tables, t, size) ==
  IF t <= 1 THEN 0
  ELSE FragmentsBefore(tables, t - 1, size)
         + FragmentCount(Len(KeptRows(tables[t - 1])), size)

\* The rows of the tasks, task after task.
RowsOf(tasks) == Flatten([k \in 1..Len(tasks) |-> tasks[k].rows])

\* tasks split rows in order, each row in exactly one task: every task but
\* the last holds size rows, the last between 1 and size.
SplitsInOrder(rows, tasks, size) ==
  /\ RowsOf(tasks) = rows
  /\ \A k \in 1..Len(tasks) : tasks[k].hint = "CSV"
  /\ \A k \in 1..(Len(tasks) - 1) : Len(tasks[k].rows) = size
  /\ tasks # <<>> => Len(tasks[Len(tasks)].rows) \in 1..size

\* tasks are the fragments of the tables one table after another, the
\* fragments of a table splitting its kept rows and nothing else.
PartitionsTables(tables, tasks, size) ==
  /\ Len(tasks) = FragmentsBefore(tables, Len(tables) + 1, size)
  /\ \A t \in 1..Len(tables) :
       LET kept == KeptRows(tables[t])
           off == FragmentsBefore(tables, t, size)
           n == FragmentCount(Len(kept), size)
       IN  SplitsInOrder(kept, SubSeq(tasks, off + 1, off + n), size)

IsBatchTask(task) == task.hint = "CSV"

\* The tables of a file, page after page.
AllTables(content) ==
  Flatten([p \in 1..Len(content.pages) |-> content.pages[p].tables])

\* C25: the row fragments process_file queues for a PDF partition the rows
\* that pass the filters, table by table and in order, every fragment of a
\* table but the last of ROW_BATCH_SIZE rows and the last of 1 to
\* ROW_BATCH_SIZE, and so does the loop over the tables of a page for every
\* batch size from 1 to MaxBatchSize; the chunks queued for a CSV split its
\* records in order into chunks of CHUNK_SIZE_LINES.
C25_SegmentationPartitions ==
  \A c \in Callers :
    (call[c].op = "process_file" /\ call[c].content.readable) =>
      IF Extension(call[c].filepath) = S_pdf
        THEN /\ PartitionsTables(AllTables(call[c].content),
                                 SelectSeq(call[c].tasks, IsBatchTask),
                                 ROW_BATCH_SIZE)
             /\ \A p \in 1..Len(call[c].content.pages) :
                  \A size \in 1..MaxBatchSize :
                    PartitionsTables(call[c].content.pages[p].tables,
                      TablesLoopSized(call[c].content.pages[p].tables, 1, <<>>, size),
                      size)
      ELSE SplitsInOrder(call[c].content.records, call[c].tasks, CHUNK_SIZE_LINES)

\* A PDF page of two tables has been cut: the first table has a filtered
\* row and a single kept row, which at a batch size of two is a last
\* fragment that is not full, and the second table has two kept rows.
C25_Witness ==
  \E c \in Callers :
    /\ pc[c] = "pool"
    /\ Len(call[c].content.pages) = 1
    /\ Len(call[c].content.pages[1].tables) = 2
    /\ Len(call[c].content.pages[1].tables[1]) = 2
    /\ Len(KeptRows(call[c].content.pages[1].tables[1])) = 1
    /\ Len(KeptRows(call[c].content.pages[1].tables[2])) = 2
    /\ Len(call[c].tasks) = 3

\* A CSV of two full chunks and one record has been cut into three chunks.
C25_WitnessCsv ==
  \E c \in Callers :
    /\ pc[c] = "pool"
    /\ Len(call[c].content.records) = 2 * CHUNK_SIZE_LINES + 1
    /\ Len(call[c].tasks) = 3

----------------------------------------------------------------------------
(* C26 *)

\* No call is under way: every call made so far has ended.
NoCallUnderWay == \A c \in Callers : pc[c] \in {"idle", "done"}

\* C26: when the process_file and teach calls made so far, one after
\* another, have ended, every stored transaction whose lowercased merchant
\* contains no rule keyword is 'Uncategorized', and every other one, no two
\* of the keywords it contains being of equal length, has the category of
\* the longest rule keyword it contains.
C26_CategoryOfLongestKeyword ==
  NoCallUnderWay =>
    \A i \in 1..Len(transactions) :
      LET M == MatchingRules(transactions[i].merchant)
      IN  IF M = {} THEN transactions[i].category = Uncategorized
          ELSE (\A j, k \in M :
                  j # k => Len(category_map[j].keyword) # Len(category_map[k].keyword))
                 => \E k \in M :
                      /\ \A j \in M :
                           Len(category_map[k].keyword) >= Len(category_map[j].keyword)
                      /\ transactions[i].category = category_map[k].category

----------------------------------------------------------------------------
(* C27 *)

\* save_transactions of c's call, on the store the call began with.
SaveOf(c) ==
  SaveTransactions(call[c].pre_rows, call[c].all_transactions,
                   Basename(call[c].filepath), call[c].detected_method)

\* C27: a process_file call that queued at least one fragment and whose
\* save_transactions returned has, when it ends, the record of its digest in
\* processed_files, also when every Oracle call failed and no row was
\* saved; and a call on content whose digest is recorded is skipped, makes
\* no Oracle call and inserts nothing.
C27_DigestRecordedWithoutRows ==
  \A c \in Callers :
    call[c].op = "process_file" =>
      /\ (call[c].tasks # <<>> /\ pc[c] = "done" /\ ~SaveOf(c).raised) =>
           /\ call[c].outcome = "returned"
           /\ RecordOf(c) \in processed_files
      /\ call[c].f_hash \in HashesOf(call[c].pre_files) =>
           /\ call[c].outcome = "skipped"
           /\ call[c].oracle_calls = 0
           /\ transactions = call[c].pre_rows

\* A call on content given before is skipped on a digest that was recorded
\* with no transaction in the store: every Oracle call of the earlier call
\* had failed.
C27_Witness ==
  \E c \in Callers :
    /\ call[c].op = "process_file"
    /\ call[c].outcome = "skipped"
    /\ call[c].repeat
    /\ transactions = <<>>
    /\ call[c].f_hash \in HashesOf(processed_files)

\* A call of two fragments has ended with the digest recorded, every Oracle
\* call having failed and no row saved.
C27_WitnessAllFailed ==
  \E c \in Callers :
    /\ call[c].op = "process_file"
    /\ Swept(c)
    /\ Len(call[c].tasks) = 2
    /\ \A i \in 1..Len(call[c].tasks) : FragmentFailed(c, i)
    /\ call[c].count = 0
    /\ transactions = <<>>
    /\ RecordOf(c) \in processed_files

----------------------------------------------------------------------------
(* C28 *)

\* Candidates that differ in txn_type, payment_method or notes.
DifferInDetail(t, u) ==
  t.txn_type # u.txn_type \/ t.payment_method # u.payment_method \/ t.notes # u.notes

\* The first candidate of the list without transaction_id that has the
\* date, merchant and normalized amount of t.
FirstOfContent(list, t) ==
  list[CHOOSE m \in 1..Len(list) :
         /\ SyntheticCandidate(list[m]) /\ SameContent(list[m], t)
         /\ \A n \in 1..(m - 1) :
              ~(SyntheticCandidate(list[n]) /\ SameContent(list[n], t))]

\* C28: two candidates of one file without transaction_id that agree on
\* date, merchant and absolute amount and differ in txn_type, payment_method
\* or notes have one pseudo-ID, and once save_transactions has returned the
\* file holds a single row for them: the row stored before the call if
\* there was one, and otherwise the row of the candidate processed first.
C28_FirstProcessedWins ==
  \A c \in Callers :
    Saved(c) =>
      \A i, j \in 1..Len(call[c].all_transactions) :
        LET list == call[c].all_transactions
            t == list[i]
            u == list[j]
            filename == Basename(call[c].filepath)
            first == FirstOfContent(list, t)
            row == NewRow(first, CleanAmount(first.amount), filename,
                          call[c].detected_method)
        IN  (/\ SyntheticCandidate(t) /\ SyntheticCandidate(u)
             /\ SameContent(t, u) /\ DifferInDetail(t, u)) =>
              /\ ResolveTxId(t, CleanAmount(t.amount)) =
                   ResolveTxId(u, CleanAmount(u.amount))
              /\ \E k \in 1..Len(transactions) :
                   /\ RowsOfContent(t, filename) = {k}
                   /\ [transactions[k] EXCEPT !.category = Uncategorized] =
                        IF KeyExists(call[c].pre_rows, row)
                          THEN [call[c].pre_rows[k] EXCEPT !.category = Uncategorized]
                        ELSE row

\* A call saved a DEBIT candidate and then a CREDIT candidate of the same
\* date, merchant and absolute amount, neither with a transaction_id, and
\* the one row stored for them is a DEBIT.
C28_Witness ==
  \E c \in Callers :
    /\ Saved(c)
    /\ call[c].count = 1
    /\ \E i, j \in 1..Len(call[c].all_transactions) :
         LET t == call[c].all_transactions[i]
             u == call[c].all_transactions[j]
         IN  /\ i < j
             /\ SyntheticCandidate(t) /\ SyntheticCandidate(u) /\ SameContent(t, u)
             /\ ResolveTxnType(t) = DEBIT /\ ResolveTxnType(u) = CREDIT
             /\ \E k \in RowsOfContent(t, Basename(call[c].filepath)) :
                  transactions[k].txn_type = DEBIT

----------------------------------------------------------------------------
(* DedupSpec: process_file on files of one name and different bytes, and on
   a file of another name, the Oracle returning the same candidates *)

MaxDedupOps == 3

DedupPaths == {P_redo, P_old, P_upi}

DedupReplies ==
  {Reply("list", <<C_star>>), Reply("list", <<C_noid>>), Reply("raise", <<>>)}

DedupNext ==
  \/ \E p \in DedupPaths : ProcessFileSkip(1, p, FileAt(p), MaxDedupOps)
  \/ \E p \in DedupPaths :
       ProcessFileSegment(1, p, FileAt(p), NoAnswer, MaxDedupOps)
  \/ Step(1, DedupReplies)

DedupSpec == Init /\ [][DedupNext]_vars

----------------------------------------------------------------------------
(* C29 *)

\* The ids of the rows that have transaction_id id and source file filename.
RowsOfKey(rows, id, filename) ==
  {k \in 1..Len(rows) :
     rows[k].transaction_id = id /\ rows[k].source_file = filename}

\* C29: once save_transactions has returned, a candidate it did not drop
\* whose supplied or pseudo transaction_id was stored under the base
\* filename of the call, whatever the bytes of the file that brought it, has
\* added no row and left the stored one as it was; a candidate whose
\* transaction_id was not stored under that base filename, stored under
\* another or not, has one new row.
C29_DedupByIdAndBasename ==
  \A c \in Callers :
    Saved(c) =>
      \A i \in 1..Len(call[c].all_transactions) :
        LET t == call[c].all_transactions[i]
            filename == Basename(call[c].filepath)
            id == ResolveTxId(t, CleanAmount(t.amount))
            before == RowsOfKey(call[c].pre_rows, id, filename)
            after == RowsOfKey(transactions, id, filename)
        IN  (~SkippedBySave(t) /\ CleanAmount(t.amount).ok) =>
              /\ Cardinality(after) = 1
              /\ IF before # {}
                   THEN /\ after = before
                        /\ \A k \in after :
                             [transactions[k] EXCEPT !.category = Uncategorized] =
                               [call[c].pre_rows[k] EXCEPT !.category = Uncategorized]
                 ELSE \A k \in after : k > Len(call[c].pre_rows)

\* A call on a file with the base filename and not the bytes of a file
\* processed before has been offered the transaction_id stored under that
\* filename and has inserted nothing, while the store holds that
\* transaction_id under two base filenames.
C29_Witness ==
  \E c \in Callers :
    /\ Saved(c)
    /\ call[c].count = 0
    /\ \E r \in call[c].pre_files :
         r.filename = Basename(call[c].filepath) /\ r.file_hash # call[c].f_hash
    /\ \E i \in 1..Len(call[c].all_transactions) :
         LET t == call[c].all_transactions[i]
             id == ResolveTxId(t, CleanAmount(t.amount))
         IN  /\ ~SkippedBySave(t) /\ CleanAmount(t.amount).ok
             /\ RowsOfKey(call[c].pre_rows, id, Basename(call[c].filepath)) # {}
             /\ \E n \in 1..Len(transactions) :
                  /\ transactions[n].transaction_id = id
                  /\ transactions[n].source_file # Basename(call[c].filepath)

----------------------------------------------------------------------------
(* C30 *)

\* C30: a process_file call whose save_transactions raised before its
\* commit has ended there: the store holds none of the rows of the call,
\* also those inserted before the exception, the digest is not recorded and
\* no step of the sweep has run. save_transactions raises whenever a
\* candidate it does not drop has a payment_method that is not a string.
C30_SaveAllOrNothing ==
  \A c \in Callers :
    (call[c].op = "process_file" /\ call[c].tasks # <<>> /\ pc[c] \notin {"pool", "idle"}) =>
      IF SaveOf(c).raised
        THEN /\ pc[c] = "done"
             /\ call[c].outcome = "raised"
             /\ transactions = call[c].pre_rows
             /\ processed_files = call[c].pre_files
             /\ ~IsFileProcessed(call[c].f_hash)
             /\ call[c].rules = <<>> /\ call[c].fetched = <<>> /\ call[c].updates = <<>>
      ELSE call[c].outcome # "raised"

\* A call has ended on the exception of save_transactions, which had
\* inserted the row of an earlier candidate of the list when it reached the
\* candidate whose payment_method is a number, with a rule in category_map
\* that the sweep would have applied.
C30_Witness ==
  \E c \in Callers :
    /\ call[c].op = "process_file"
    /\ call[c].outcome = "raised"
    /\ category_map # <<>>
    /\ \E i, j \in 1..Len(call[c].all_transactions) :
         LET t == call[c].all_transactions[i]
         IN  /\ i < j
             /\ PaymentMethodRaises(call[c].all_transactions[j])
             /\ ~SkippedBySave(t) /\ CleanAmount(t.amount).ok
             /\ RowsOfKey(transactions, ResolveTxId(t, CleanAmount(t.amount)),
                          Basename(call[c].filepath)) = {}

====
